---- MODULE Spec2Model ----
(***************************************************************************)
(* A model of mmriver-tiles-ts: a Merkle Mountain Range log stored as      *)
(* tiles (src/unnamed/part_007, the current tiles.ts), the MMR index       *)
(* algebra and proof algorithms (src/unnamed/part_005, algorithms.ts) and  *)
(* the SQLite tile storage provider (src/unnamed/part_003).                *)
(*                                                                         *)
(* Values.  A field (32 bytes in the program) is modelled as a tuple:      *)
(*   << >>            the all-zero field of a freshly allocated buffer     *)
(*   <<v>>            a leaf value (v = 100 * writer + serial number)      *)
(*   <<h, id>>        the start (header) field of a tile                   *)
(*   <<pos, l, r>>    the digest H(be64(pos) || l || r)                    *)
(* The hash function is an external collaborator; it is modelled as a      *)
(* collision free function, the digest being the term it was computed      *)
(* from.  Byte offsets are kept as in the program; a buffer is a sequence  *)
(* of fields and the field at byte offset o is element o / fieldWidth + 1. *)
(***************************************************************************)
EXTENDS Integers, Sequences, FiniteSets, TLC

\* ------------------------------------------------------------------------
\* Bounds of the model
\* ------------------------------------------------------------------------
MaxLeaves == 8
MaxBatch == 3
MaxCalls == 4
MaxRaceCalls == 3
MaxTileHeight == 2
MaxLeafIndex == 127
MaxBuildLeaves == 10
MaxPairIndex == 31
MaxPushes == 40
MaxProofIndex == 47
MaxTileId == 7

\* ------------------------------------------------------------------------
\* Byte and binary primitives (algorithms.ts)
\* ------------------------------------------------------------------------
RECURSIVE Pow2(_)
Pow2(n) == IF n <= 0 THEN 1 ELSE 2 * Pow2(n - 1)

\* the JavaScript operators a << n and a >> n: the shift count is taken
\* modulo 32 and the result is a signed 32-bit integer (bit 31 - m of a
\* becomes the sign bit, the bits above it are lost). A value below 2^15
\* shifted by less than 16 stays below 2^30 and is the plain product
ShiftLeft(a, n) ==
    LET m == n % 32
        kept(low) == IF low = 0 THEN 0 ELSE low * Pow2(m)
        wrapped(low, sign) ==
            IF sign = 1 THEN (kept(low) - Pow2(30)) - Pow2(30) ELSE kept(low)
    IN IF m = 0 THEN a
       ELSE IF m < 16 /\ 0 <= a /\ a < 32768 THEN a * Pow2(m)
       ELSE wrapped(a % Pow2(31 - m), (a \div Pow2(31 - m)) % 2)

ShiftRight(a, n) ==
    LET m == n % 32
    IN IF m <= 30 THEN a \div Pow2(m) ELSE (a \div Pow2(30)) \div 2

\* x - 1 for a signed 32-bit x. For x = -2^31 the number -2^31 - 1 is below
\* the integers of the model and x is kept: the callers only test such a value
\* for its sign or compare it with a non-negative number
Less1(x) == IF x < 0 /\ x + Pow2(30) + Pow2(30) = 0 THEN x ELSE x - 1

RECURSIVE log2_floor(_)
log2_floor(x) == IF x <= 1 THEN 0 ELSE 1 + log2_floor(x \div 2)

bit_length(x) == IF x = 0 THEN 0 ELSE log2_floor(x) + 1

all_ones(pos) ==
    LET imsb == bit_length(pos) - 1
        mask == Less1(ShiftLeft(1, imsb + 1))
    IN pos = mask

most_sig_bit(x) == ShiftLeft(1, bit_length(x) - 1)

RECURSIVE ones(_)
ones(x) == IF x = 0 THEN 0 ELSE (x % 2) + ones(ShiftRight(x, 1))

RECURSIVE CountTrailingZeros(_)
CountTrailingZeros(x) == IF x % 2 = 1 THEN 0 ELSE 1 + CountTrailingZeros(x \div 2)

\* 31 - Math.clz32(x & -x) is the position of the lowest set bit
trailing_zeros64(x) == IF x = 0 THEN 64 ELSE CountTrailingZeros(x)

\* ------------------------------------------------------------------------
\* Essential supporting algorithms (algorithms.ts)
\* ------------------------------------------------------------------------
\* Fault model: the loop takes the whole most significant bit off
\* (pos - most_sig_bit(pos) in place of pos - (most_sig_bit(pos) - 1))
RECURSIVE IndexHeightLoop_DropsBit(_)
IndexHeightLoop_DropsBit(pos) ==
    IF all_ones(pos) THEN pos ELSE IndexHeightLoop_DropsBit(pos - most_sig_bit(pos))

index_height_DropsBit(i) == bit_length(IndexHeightLoop_DropsBit(i + 1)) - 1

RECURSIVE IndexHeightLoop(_)
IndexHeightLoop(pos) ==
    IF all_ones(pos) THEN pos ELSE IndexHeightLoop(pos - (most_sig_bit(pos) - 1))

index_height(i) == bit_length(IndexHeightLoop(i + 1)) - 1

\* Fault model: the highest peak is sized from the nodes that remain
\* (log2_floor(s) in place of log2_floor(s + 1))
RECURSIVE PeaksLoop_FloorOfSize(_, _, _)
PeaksLoop_FloorOfSize(s, peak, acc) ==
    IF s = 0 THEN acc
    ELSE LET highest_size == ShiftLeft(1, log2_floor(s)) - 1
             p == peak + highest_size
         IN IF highest_size = 0 THEN Append(acc, peak + s - 1)
            ELSE PeaksLoop_FloorOfSize(s - highest_size, p, Append(acc, p - 1))

peaks_FloorOfSize(i) == PeaksLoop_FloorOfSize(i + 1, 0, << >>)

RECURSIVE PeaksLoop(_, _, _)
PeaksLoop(s, peak, acc) ==
    IF s = 0 THEN acc
    ELSE LET highest_size == ShiftLeft(1, log2_floor(s + 1)) - 1
             p == peak + highest_size
         IN PeaksLoop(s - highest_size, p, Append(acc, p - 1))

peaks(i) == PeaksLoop(i + 1, 0, << >>)

RECURSIVE LeafCountLoop(_, _, _)
LeafCountLoop(s, peaksize, peakmap) ==
    IF peaksize > 0
    THEN LET pm == ShiftLeft(peakmap, 1)
         IN IF s >= peaksize
            THEN LeafCountLoop(s - peaksize, ShiftRight(peaksize, 1), pm + 1)
            ELSE LeafCountLoop(s, ShiftRight(peaksize, 1), pm)
    ELSE peakmap

\* Fault model: a peak is taken only when more nodes than its size remain
\* (s > peaksize in place of s >= peaksize)
RECURSIVE LeafCountLoop_Strict(_, _, _)
LeafCountLoop_Strict(s, peaksize, peakmap) ==
    IF peaksize > 0
    THEN LET pm == ShiftLeft(peakmap, 1)
         IN IF s > peaksize
            THEN LeafCountLoop_Strict(s - peaksize, ShiftRight(peaksize, 1), pm + 1)
            ELSE LeafCountLoop_Strict(s, ShiftRight(peaksize, 1), pm)
    ELSE peakmap

leaf_count_Strict(i) ==
    LeafCountLoop_Strict(i + 1, Less1(ShiftLeft(1, bit_length(i + 1))), 0)

leaf_count(i) == LeafCountLoop(i + 1, Less1(ShiftLeft(1, bit_length(i + 1))), 0)

\* Fault model: the sum takes the whole power of two for each set bit
\* (sum += 1 << h in place of sum += (1 << h) - 1)
RECURSIVE MmrIndexLoop_KeepsOne(_, _)
MmrIndexLoop_KeepsOne(e, sum) ==
    IF e > 0
    THEN LET h == bit_length(e)
             half == ShiftLeft(1, h - 1)
         IN MmrIndexLoop_KeepsOne(e - half, sum + ShiftLeft(1, h))
    ELSE sum

mmr_index_KeepsOne(e) == MmrIndexLoop_KeepsOne(e, 0)

RECURSIVE MmrIndexLoop(_, _)
MmrIndexLoop(e, sum) ==
    IF e > 0
    THEN LET h == bit_length(e)
             half == ShiftLeft(1, h - 1)
         IN MmrIndexLoop(e - half, sum + ShiftLeft(1, h) - 1)
    ELSE sum

mmr_index(e) == MmrIndexLoop(e, 0)

\* Fault model: the index advances once only (if in place of while)
complete_mmr_OneStep(i) ==
    IF index_height(i) < index_height(i + 1) THEN i + 1 ELSE i

RECURSIVE complete_mmr(_)
complete_mmr(i) ==
    IF index_height(i) < index_height(i + 1) THEN complete_mmr(i + 1) ELSE i

\* Fault model: a peak is taken for the first node after it
\* (r + peaksize >= i in place of r + peaksize > i)
RECURSIVE AccumulatorRootLoop_TakesNext(_, _, _, _)
AccumulatorRootLoop_TakesNext(i, s, peaksize, r) ==
    IF peaksize > 0
    THEN IF r + peaksize > s
         THEN AccumulatorRootLoop_TakesNext(i, s, ShiftRight(peaksize, 1), r)
         ELSE IF r + peaksize >= i
              THEN r + peaksize - 1
              ELSE AccumulatorRootLoop_TakesNext(i, s, ShiftRight(peaksize, 1), r + peaksize)
    ELSE r

accumulator_root_TakesNext(i, c) ==
    AccumulatorRootLoop_TakesNext(i, c + 1, Less1(ShiftLeft(1, bit_length(c + 1))), 0)

RECURSIVE AccumulatorRootLoop(_, _, _, _)
AccumulatorRootLoop(i, s, peaksize, r) ==
    IF peaksize > 0
    THEN IF r + peaksize > s
         THEN AccumulatorRootLoop(i, s, ShiftRight(peaksize, 1), r)
         ELSE IF r + peaksize > i
              THEN r + peaksize - 1
              ELSE AccumulatorRootLoop(i, s, ShiftRight(peaksize, 1), r + peaksize)
    ELSE r

accumulator_root(i, c) ==
    AccumulatorRootLoop(i, c + 1, Less1(ShiftLeft(1, bit_length(c + 1))), 0)

\* ------------------------------------------------------------------------
\* Hashing and proofs (algorithms.ts)
\* ------------------------------------------------------------------------
hash_pos_pair64(pos, left, right) == <<pos, left, right>>

bytes_equal(a, b) == a = b

\* Fault model: the path stops one index late
\* (isibling > c + 1 in place of isibling > c)
RECURSIVE InclusionPathLoop_StopsLate(_, _, _, _)
InclusionPathLoop_StopsLate(i, c, g, path) ==
    LET siblingoffset == ShiftLeft(2, g)
        right == index_height(i + 1) > g
        isibling == IF right THEN i - siblingoffset + 1 ELSE i + siblingoffset - 1
        inext == IF right THEN i + 1 ELSE i + siblingoffset
    IN IF isibling > c + 1 THEN path
       ELSE InclusionPathLoop_StopsLate(inext, c, g + 1, Append(path, isibling))

inclusion_proof_path_StopsLate(i, c) ==
    InclusionPathLoop_StopsLate(i, c, index_height(i), << >>)

RECURSIVE InclusionPathLoop(_, _, _, _)
InclusionPathLoop(i, c, g, path) ==
    LET siblingoffset == ShiftLeft(2, g)
        right == index_height(i + 1) > g
        isibling == IF right THEN i - siblingoffset + 1 ELSE i + siblingoffset - 1
        inext == IF right THEN i + 1 ELSE i + siblingoffset
    IN IF isibling > c THEN path
       ELSE InclusionPathLoop(inext, c, g + 1, Append(path, isibling))

inclusion_proof_path(i, c) == InclusionPathLoop(i, c, index_height(i), << >>)

RECURSIVE IncludedRootLoop(_, _, _, _, _)
IncludedRootLoop(i, g, root, proof, k) ==
    IF k > Len(proof) THEN root
    ELSE IF index_height(i + 1) > g
         THEN IncludedRootLoop(i + 1, g + 1,
                  hash_pos_pair64(i + 2, proof[k], root), proof, k + 1)
         ELSE IncludedRootLoop(i + ShiftLeft(2, g), g + 1,
                  hash_pos_pair64(i + ShiftLeft(2, g) + 1, root, proof[k]), proof, k + 1)

included_root(i, value, proof) == IncludedRootLoop(i, index_height(i), value, proof, 1)

consistency_proof_paths(ifrom, ito) ==
    LET frompeaks == peaks(ifrom)
    IN [k \in 1..Len(frompeaks) |-> inclusion_proof_path(frompeaks[k], ito)]

RECURSIVE ConsistentRootsLoop(_, _, _, _, _)
ConsistentRootsLoop(frompeaks, accumulatorfrom, proofs, k, roots) ==
    IF k > Len(accumulatorfrom) THEN roots
    ELSE LET root == included_root(frompeaks[k], accumulatorfrom[k], proofs[k])
         IN IF Len(roots) > 0 /\ bytes_equal(roots[Len(roots)], root)
            THEN ConsistentRootsLoop(frompeaks, accumulatorfrom, proofs, k + 1, roots)
            ELSE ConsistentRootsLoop(frompeaks, accumulatorfrom, proofs, k + 1,
                                     Append(roots, root))

\* [ok, roots]: ok is FALSE where the program throws for mismatched lengths
consistent_roots(ifrom, accumulatorfrom, proofs) ==
    LET frompeaks == peaks(ifrom)
    IN IF Len(frompeaks) # Len(accumulatorfrom) \/ Len(frompeaks) # Len(proofs)
       THEN [ok |-> FALSE, roots |-> << >>]
       ELSE [ok |-> TRUE,
             roots |-> ConsistentRootsLoop(frompeaks, accumulatorfrom, proofs, 1, << >>)]

\* ------------------------------------------------------------------------
\* Tile format (tiles.ts, Tiles.format)
\* ------------------------------------------------------------------------
fieldWidth == 32
maxPeaks == 64

Undefined == -1
NoTile == [none |-> TRUE]
IsTile(t) == "id" \in DOMAIN t

ZeroField == << >>

Format(tile_height) ==
    [tileHeight |-> tile_height,
     fieldWidth |-> fieldWidth,
     peaksStart |-> 1 * fieldWidth,
     nodesStart |-> 1 * fieldWidth + maxPeaks * fieldWidth,
     leafCount  |-> ShiftLeft(1, tile_height),
     maxPeaks   |-> maxPeaks]

\* Buffer.alloc(size): a zero filled buffer
BufferAlloc(cfg, size) == [k \in 1..(size \div cfg.fieldWidth) |-> ZeroField]

\* data.subarray(0, end)
Subarray0(cfg, data, end) ==
    SubSeq(data, 1, IF end \div cfg.fieldWidth < Len(data)
                    THEN end \div cfg.fieldWidth ELSE Len(data))

\* Fault model: room for the leaves only (the interior nodes are left out)
max_tile_size_LeavesOnly(fmt, tileid) ==
    fmt.nodesStart + fmt.leafCount * fmt.fieldWidth

max_tile_size(fmt, tileid) ==
    LET i0 == mmr_index(fmt.leafCount * (tileid + 0))
        i1 == mmr_index(fmt.leafCount * (tileid + 1))
    IN fmt.nodesStart + (i1 - i0) * fmt.fieldWidth

write_start_field(cfg, data, tileid) ==
    [data EXCEPT ![1] = <<cfg.tileHeight, tileid>>]

read_start_field(cfg, data) == data[1]

get_tileid(cfg, i) == leaf_count(i) \div cfg.leafCount

\* ------------------------------------------------------------------------
\* Tile (tiles.ts)
\* ------------------------------------------------------------------------
FieldSlot(cfg, i, offset) == (offset + i * cfg.fieldWidth) \div cfg.fieldWidth + 1

read_field(cfg, data, i, offset) ==
    IF FieldSlot(cfg, i, offset) \in 1..Len(data)
    THEN data[FieldSlot(cfg, i, offset)]
    ELSE ZeroField

write_field(cfg, data, i, v, offset) ==
    [data EXCEPT ![FieldSlot(cfg, i, offset)] = v]

\* Fault model: the filter drops the peaks of whole tiles, height tileHeight and
\* below (g <= tileHeight in place of g < tileHeight - 1)
read_ancestor_peaks_map_DropsTilePeaks(cfg, firstIndex) ==
    LET pk == peaks(firstIndex - 1)
        kept == {k \in 1..Len(pk) : ~(index_height(pk[k]) <= cfg.tileHeight)}
    IN [p \in {pk[k] : k \in kept} |-> (CHOOSE k \in kept : pk[k] = p) - 1]

\* maps each retained ancestor peak index to the peak slot its value is a view of
read_ancestor_peaks_map(cfg, firstIndex) ==
    LET pk == peaks(firstIndex - 1)
        kept == {k \in 1..Len(pk) : ~(index_height(pk[k]) < cfg.tileHeight - 1)}
    IN [p \in {pk[k] : k \in kept} |-> (CHOOSE k \in kept : pk[k] = p) - 1]

\* new Tile(cfg, data, id, lastIndex): [ok, tile]
TileConstruct(cfg, data, id, lastIndex) ==
    LET firstIndex == mmr_index(id * ShiftLeft(1, cfg.tileHeight))
        nextIndex == IF lastIndex = Undefined THEN firstIndex ELSE lastIndex + 1
        last == IF lastIndex = Undefined THEN firstIndex ELSE lastIndex
    IN [ok |-> ~(last < firstIndex),
        tile |-> [id |-> id,
                  firstIndex |-> firstIndex,
                  nextIndex |-> nextIndex,
                  lastLeafMMRIndex |-> mmr_index((id + 1) * ShiftLeft(1, cfg.tileHeight) - 1),
                  data |-> data,
                  ancestorPeaks |-> IF firstIndex > 0
                                    THEN read_ancestor_peaks_map(cfg, firstIndex)
                                    ELSE << >>]]

read_index(cfg, t, i) == read_field(cfg, t.data, i - t.firstIndex, cfg.nodesStart)

\* Fault model: the index after the last node is served
\* (i > nextIndex in place of i >= nextIndex)
TileGet_ServesNextIndex(cfg, t, i) ==
    IF i < t.firstIndex
    THEN IF i \in DOMAIN t.ancestorPeaks
         THEN [ok |-> TRUE, value |-> read_field(cfg, t.data, t.ancestorPeaks[i], cfg.peaksStart)]
         ELSE [ok |-> FALSE, value |-> ZeroField]
    ELSE IF i > t.nextIndex
         THEN [ok |-> FALSE, value |-> ZeroField]
         ELSE [ok |-> TRUE, value |-> read_index(cfg, t, i)]

\* Tile.get: [ok, value]; ok is FALSE where the program throws MMRIndexRangeError
TileGet(cfg, t, i) ==
    IF i < t.firstIndex
    THEN IF i \in DOMAIN t.ancestorPeaks
         THEN [ok |-> TRUE, value |-> read_field(cfg, t.data, t.ancestorPeaks[i], cfg.peaksStart)]
         ELSE [ok |-> FALSE, value |-> ZeroField]
    ELSE IF i >= t.nextIndex
         THEN [ok |-> FALSE, value |-> ZeroField]
         ELSE [ok |-> TRUE, value |-> read_index(cfg, t, i)]

\* Tile.append: [db, i]
TileAppend(cfg, t, v) ==
    [db |-> [t EXCEPT !.data = write_field(cfg, t.data, t.nextIndex - t.firstIndex, v, cfg.nodesStart),
                      !.nextIndex = t.nextIndex + 1],
     i |-> t.nextIndex + 1]

last_index(t) == IF t.nextIndex = t.firstIndex THEN t.firstIndex ELSE t.nextIndex - 1

node_count(t) == IF t.nextIndex = t.firstIndex THEN 0 ELSE t.nextIndex - t.firstIndex

\* ------------------------------------------------------------------------
\* The flat array adder of the algorithm tests (LeafAdder) and the ILeafAdder
\* capability (append + get) that add_leaf_hash is written against
\* ------------------------------------------------------------------------
LeafAdder == [nodes |-> << >>]
IsLeafAdder(db) == "nodes" \in DOMAIN db

LeafAdderAppend(db, node) ==
    [db |-> [db EXCEPT !.nodes = Append(db.nodes, node)], i |-> Len(db.nodes) + 1]

LeafAdderGet(db, i) ==
    IF i + 1 \in 1..Len(db.nodes)
    THEN [ok |-> TRUE, value |-> db.nodes[i + 1]]
    ELSE [ok |-> FALSE, value |-> ZeroField]

DbAppend(cfg, db, v) == IF IsLeafAdder(db) THEN LeafAdderAppend(db, v) ELSE TileAppend(cfg, db, v)
DbGet(cfg, db, i) == IF IsLeafAdder(db) THEN LeafAdderGet(db, i) ELSE TileGet(cfg, db, i)

RECURSIVE AddLeafHashLoop(_, _, _, _)
AddLeafHashLoop(cfg, db, i, g) ==
    IF index_height(i) > g
    THEN LET left == DbGet(cfg, db, i - ShiftLeft(2, g))
             right == DbGet(cfg, db, i - 1)
         IN IF ~left.ok \/ ~right.ok
            THEN [ok |-> FALSE, db |-> db, i |-> i]
            ELSE LET a == DbAppend(cfg, db, hash_pos_pair64(i + 1, left.value, right.value))
                 IN AddLeafHashLoop(cfg, a.db, a.i, g + 1)
    ELSE [ok |-> TRUE, db |-> db, i |-> i]

\* Fault model: the left child is read one subtree short
\* (i - (1 << g) in place of i - (2 << g))
RECURSIVE AddLeafHashLoop_NearLeft(_, _, _, _)
AddLeafHashLoop_NearLeft(cfg, db, i, g) ==
    IF index_height(i) > g
    THEN LET left == DbGet(cfg, db, i - ShiftLeft(1, g))
             right == DbGet(cfg, db, i - 1)
         IN IF ~left.ok \/ ~right.ok
            THEN [ok |-> FALSE, db |-> db, i |-> i]
            ELSE LET a == DbAppend(cfg, db, hash_pos_pair64(i + 1, left.value, right.value))
                 IN AddLeafHashLoop_NearLeft(cfg, a.db, a.i, g + 1)
    ELSE [ok |-> TRUE, db |-> db, i |-> i]

add_leaf_hash_NearLeft(cfg, db, f) ==
    LET a == DbAppend(cfg, db, f)
    IN AddLeafHashLoop_NearLeft(cfg, a.db, a.i, 0)

\* Fault model: at most one parent is added after the leaf (an if in place of
\* the while)
add_leaf_hash_OneParent(cfg, db, f) ==
    LET a == DbAppend(cfg, db, f)
    IN IF index_height(a.i) > 0
       THEN LET left == DbGet(cfg, a.db, a.i - ShiftLeft(2, 0))
                right == DbGet(cfg, a.db, a.i - 1)
                added(p) == [ok |-> TRUE, db |-> p.db, i |-> p.i]
            IN IF ~left.ok \/ ~right.ok
               THEN [ok |-> FALSE, db |-> a.db, i |-> a.i]
               ELSE added(DbAppend(cfg, a.db, hash_pos_pair64(a.i + 1, left.value, right.value)))
       ELSE [ok |-> TRUE, db |-> a.db, i |-> a.i]

\* add_leaf_hash: [ok, db, i]; ok is FALSE where db.get throws
add_leaf_hash(cfg, db, f) ==
    LET a == DbAppend(cfg, db, f)
    IN AddLeafHashLoop(cfg, a.db, a.i, 0)

\* Fault model: the tile is taken to be full one index late
\* (nextIndex > lastLeafMMRIndex + 1 in place of nextIndex > lastLeafMMRIndex)
append_leaf_FullOneLate(cfg, t, v) ==
    IF t.nextIndex > t.lastLeafMMRIndex + 1
    THEN [err |-> "TileFullError", db |-> t, i |-> t.nextIndex]
    ELSE LET r == add_leaf_hash(cfg, t, v)
         IN [err |-> IF r.ok THEN "none" ELSE "MMRIndexRangeError", db |-> r.db, i |-> r.i]

\* Fault model: the tile is taken to be full one index early
\* (nextIndex >= lastLeafMMRIndex in place of nextIndex > lastLeafMMRIndex)
append_leaf_FullOneEarly(cfg, t, v) ==
    IF t.nextIndex >= t.lastLeafMMRIndex
    THEN [err |-> "TileFullError", db |-> t, i |-> t.nextIndex]
    ELSE LET r == add_leaf_hash(cfg, t, v)
         IN [err |-> IF r.ok THEN "none" ELSE "MMRIndexRangeError", db |-> r.db, i |-> r.i]

\* Tile.append_leaf: [err, db, i]; err is "TileFullError", "MMRIndexRangeError" or "none"
append_leaf(cfg, t, v) ==
    IF t.nextIndex > t.lastLeafMMRIndex
    THEN [err |-> "TileFullError", db |-> t, i |-> t.nextIndex]
    ELSE LET r == add_leaf_hash(cfg, t, v)
         IN [err |-> IF r.ok THEN "none" ELSE "MMRIndexRangeError", db |-> r.db, i |-> r.i]

\* Fault model: the peaks the last node of the tile merged are not popped (the
\* node is written at peakCount in place of peakCount - popCount)
next_peak_stack_NoPop(cfg, t) ==
    LET peakCount == ones(t.id)
        lastNode == read_index(cfg, t, last_index(t))
        data == write_field(cfg, t.data, peakCount, lastNode, cfg.peaksStart)
    IN [peaks |-> [k \in 1..(peakCount + 1) |-> read_field(cfg, data, k - 1, cfg.peaksStart)],
        data |-> data]

\* Fault model: the pop count is taken from the tile id in place of the one
\* based tile number (trailing_zeros64(id) in place of trailing_zeros64(id + 1))
next_peak_stack_PopsByTileId(cfg, t) ==
    LET peakCount == ones(t.id)
        popCount == IF t.id = 0 THEN 0 ELSE trailing_zeros64(t.id)
        keep == IF peakCount > popCount THEN peakCount - popCount ELSE 0
        lastNode == read_index(cfg, t, last_index(t))
        data == write_field(cfg, t.data, keep, lastNode, cfg.peaksStart)
    IN [peaks |-> [k \in 1..(keep + 1) |-> read_field(cfg, data, k - 1, cfg.peaksStart)],
        data |-> data]

\* Tile.next_peak_stack: the stack for the next tile and the tile's own buffer
\* after the call (the returned stack is a view of it that the call writes to)
next_peak_stack(cfg, t) ==
    LET peakCount == ones(t.id)
        popCount == trailing_zeros64(t.id + 1)
        lastNode == read_index(cfg, t, last_index(t))
        data == write_field(cfg, t.data, peakCount - popCount, lastNode, cfg.peaksStart)
    IN [peaks |-> [k \in 1..(peakCount - popCount + 1) |->
                      read_field(cfg, data, k - 1, cfg.peaksStart)],
        data |-> data]

\* data.set(src, offset)
BufferSet(cfg, data, src, offset) ==
    [k \in 1..Len(data) |->
        IF k - (offset \div cfg.fieldWidth) \in 1..Len(src)
        THEN src[k - (offset \div cfg.fieldWidth)]
        ELSE data[k]]

\* Fault model: the new tile is made without the peak stack of its parent
\* (the copy into the peak slots is left out)
TileCreate_NoPeakCopy(cfg, parent) ==
    LET tileid == IF IsTile(parent) THEN parent.id + 1 ELSE 0
        data == write_start_field(cfg, BufferAlloc(cfg, max_tile_size(cfg, tileid)), tileid)
    IN TileConstruct(cfg, data, tileid, Undefined).tile

\* Tile.create(cfg, parent?)
TileCreate(cfg, parent) ==
    LET tileid == IF IsTile(parent) THEN parent.id + 1 ELSE 0
        data == write_start_field(cfg, BufferAlloc(cfg, max_tile_size(cfg, tileid)), tileid)
    IN IF ~IsTile(parent)
       THEN TileConstruct(cfg, data, 0, Undefined).tile
       ELSE TileConstruct(cfg,
                BufferSet(cfg, data, next_peak_stack(cfg, parent).peaks, cfg.peaksStart),
                tileid, Undefined).tile

\* Fault model: the last index is taken one too far (the count of stored
\* nodes is added to firstIndex without the - 1)
TileLoad_LastIndexOffByOne(cfg, storeData) ==
    LET start == read_start_field(cfg, storeData)
        tileHeight == start[1]
        tileid == start[2]
        data == BufferSet(cfg, BufferAlloc(cfg, max_tile_size(cfg, tileid)), storeData, 0)
        firstIndex == mmr_index(tileid * ShiftLeft(1, cfg.tileHeight))
        lastIndex == firstIndex
                     + ((Len(storeData) * cfg.fieldWidth - cfg.nodesStart) \div cfg.fieldWidth)
        loaded(c) == [ok |-> c.ok, tile |-> c.tile, err |-> IF c.ok THEN "none" ELSE "Error"]
    IN IF Len(storeData) > Len(data)
       THEN [ok |-> FALSE, tile |-> NoTile, err |-> "RangeError"]
       ELSE IF cfg.tileHeight # tileHeight
       THEN [ok |-> FALSE, tile |-> NoTile, err |-> "TileHeightMismatch"]
       ELSE loaded(TileConstruct(cfg, data, tileid, lastIndex))

\* Tile.load(cfg, storeData): [ok, tile, err]; ok is FALSE where the program
\* throws: data.set(storeData) a RangeError when the image is longer than the
\* buffer allocated for its id, then the check of the tile height
\* Error('Tile height mismatch'), then the constructor its Error
TileLoad(cfg, storeData) ==
    LET start == read_start_field(cfg, storeData)
        tileHeight == start[1]
        tileid == start[2]
        data == BufferSet(cfg, BufferAlloc(cfg, max_tile_size(cfg, tileid)), storeData, 0)
        firstIndex == mmr_index(tileid * ShiftLeft(1, cfg.tileHeight))
        lastIndex == firstIndex
                     + ((Len(storeData) * cfg.fieldWidth - cfg.nodesStart) \div cfg.fieldWidth) - 1
        loaded(c) == [ok |-> c.ok, tile |-> c.tile, err |-> IF c.ok THEN "none" ELSE "Error"]
    IN IF Len(storeData) > Len(data)
       THEN [ok |-> FALSE, tile |-> NoTile, err |-> "RangeError"]
       ELSE IF cfg.tileHeight # tileHeight
       THEN [ok |-> FALSE, tile |-> NoTile, err |-> "TileHeightMismatch"]
       ELSE loaded(TileConstruct(cfg, data, tileid, lastIndex))

\* ------------------------------------------------------------------------
\* Storage provider (storage/sqlite.ts): the records table, id -> (data, counter)
\* ------------------------------------------------------------------------
EmptyTable == << >>

MaxId(table) == CHOOSE id \in DOMAIN table : \A other \in DOMAIN table : other <= id

\* Fault model: INSERT OR REPLACE in place of INSERT (OR ABORT)
SQLiteInsert_OrReplace(table, id, data) ==
    [err |-> "none",
     table |-> [k \in DOMAIN table \cup {id} |->
                   IF k = id THEN [data |-> data, counter |-> 0] ELSE table[k]]]

\* Fault model: a record is created with counter 1 (VALUES (?, ?, 1))
SQLiteInsert_CounterOne(table, id, data) ==
    IF id \in DOMAIN table
    THEN [err |-> "ExistsError", table |-> table]
    ELSE [err |-> "none",
          table |-> [k \in DOMAIN table \cup {id} |->
                        IF k = id THEN [data |-> data, counter |-> 1] ELSE table[k]]]

\* SQLite.insert: [err, table]
SQLiteInsert(table, id, data) ==
    IF id \in DOMAIN table
    THEN [err |-> "ExistsError", table |-> table]
    ELSE [err |-> "none",
          table |-> [k \in DOMAIN table \cup {id} |->
                        IF k = id THEN [data |-> data, counter |-> 0] ELSE table[k]]]

\* Fault model: the UPDATE does not compare the counter (WHERE id = ?)
SQLiteReplace_NoCounterCheck(table, id, data, counter) ==
    IF id \in DOMAIN table
    THEN [err |-> "none",
          table |-> [table EXCEPT ![id] = [data |-> data, counter |-> table[id].counter + 1]]]
    ELSE [err |-> "ChangedError", table |-> table]

\* Fault model: the UPDATE writes the data whatever the counter is and the
\* counter is compared afterwards
SQLiteReplace_WriteThenCheck(table, id, data, counter) ==
    IF id \in DOMAIN table /\ table[id].counter = counter
    THEN [err |-> "none",
          table |-> [table EXCEPT ![id] = [data |-> data, counter |-> table[id].counter + 1]]]
    ELSE IF id \in DOMAIN table
         THEN [err |-> "ChangedError", table |-> [table EXCEPT ![id].data = data]]
         ELSE [err |-> "ChangedError", table |-> table]

\* Fault model: the UPDATE leaves the counter as it is (SET data = ? only)
SQLiteReplace_KeepsCounter(table, id, data, counter) ==
    IF id \in DOMAIN table /\ table[id].counter = counter
    THEN [err |-> "none",
          table |-> [table EXCEPT ![id] = [data |-> data, counter |-> table[id].counter]]]
    ELSE [err |-> "ChangedError", table |-> table]

\* Fault model: the UPDATE accepts any counter up to the stored one
\* (WHERE id = ? AND counter >= ?)
SQLiteReplace_AcceptsOlder(table, id, data, counter) ==
    IF id \in DOMAIN table /\ table[id].counter >= counter
    THEN [err |-> "none",
          table |-> [table EXCEPT ![id] = [data |-> data, counter |-> table[id].counter + 1]]]
    ELSE [err |-> "ChangedError", table |-> table]

\* SQLite.replace: [err, table]
SQLiteReplace(table, id, data, counter) ==
    IF id \in DOMAIN table /\ table[id].counter = counter
    THEN [err |-> "none",
          table |-> [table EXCEPT ![id] = [data |-> data, counter |-> table[id].counter + 1]]]
    ELSE [err |-> "ChangedError", table |-> table]

\* SQLite.read selects the data column only: the counter it returns is undefined
SQLiteRead(table, tileid) ==
    IF tileid \in DOMAIN table
    THEN [err |-> "none", data |-> table[tileid].data, counter |-> Undefined]
    ELSE [err |-> "Error", data |-> << >>, counter |-> Undefined]

SQLiteReadHead(table) ==
    IF DOMAIN table = {}
    THEN [err |-> "EmptyError", data |-> << >>, counter |-> Undefined]
    ELSE [err |-> "none", data |-> table[MaxId(table)].data,
          counter |-> table[MaxId(table)].counter]

\* ------------------------------------------------------------------------
\* TileStore (tiles.ts)
\* ------------------------------------------------------------------------
\* TileStore.head: [err, tile, version]
StoreHead(cfg, table) ==
    LET r == SQLiteReadHead(table)
    IN IF r.err = "EmptyError"
       THEN [err |-> "none", tile |-> TileCreate(cfg, NoTile), version |-> Undefined]
       ELSE LET l == TileLoad(cfg, r.data)
            IN [err |-> IF l.ok THEN "none" ELSE "Error", tile |-> l.tile, version |-> r.counter]

\* TileStore.get: [err, tile, version]
StoreGet(cfg, table, id) ==
    LET r == SQLiteRead(table, id)
    IN IF r.err # "none"
       THEN [err |-> r.err, tile |-> NoTile, version |-> Undefined]
       ELSE LET l == TileLoad(cfg, r.data)
            IN [err |-> IF l.ok THEN "none" ELSE "Error", tile |-> l.tile, version |-> r.counter]

\* Fault model: a tile without nodes is written like any other (the return on
\* nodes === 0 is left out)
StoreCommit_WritesEmptyTile(cfg, table, tile, version) ==
    LET nodes == node_count(tile)
        data == Subarray0(cfg, tile.data, cfg.nodesStart + nodes * cfg.fieldWidth)
        r == IF version = Undefined
             THEN SQLiteInsert(table, tile.id, data)
             ELSE SQLiteReplace(table, tile.id, data, version)
    IN [err |-> r.err, table |-> r.table, called |-> TRUE]

\* Fault model: the image is cropped one field short
\* (nodesStart + (nodes - 1) * fieldWidth)
StoreCommit_CropsShort(cfg, table, tile, version) ==
    LET nodes == node_count(tile)
        data == Subarray0(cfg, tile.data, cfg.nodesStart + (nodes - 1) * cfg.fieldWidth)
    IN IF nodes = 0
       THEN [err |-> "none", table |-> table, called |-> FALSE]
       ELSE LET r == IF version = Undefined
                     THEN SQLiteInsert(table, tile.id, data)
                     ELSE SQLiteReplace(table, tile.id, data, version)
            IN [err |-> r.err, table |-> r.table, called |-> TRUE]

\* Fault model: a tile that was read from the store is never written back
\* (replace_tile is left out)
StoreCommit_CreatesOnly(cfg, table, tile, version) ==
    LET nodes == node_count(tile)
        data == Subarray0(cfg, tile.data, cfg.nodesStart + nodes * cfg.fieldWidth)
    IN IF nodes = 0 \/ version # Undefined
       THEN [err |-> "none", table |-> table, called |-> FALSE]
       ELSE LET r == SQLiteInsert(table, tile.id, data)
            IN [err |-> r.err, table |-> r.table, called |-> TRUE]

\* TileStore.commit: [err, table, called]; called tells whether the provider was called
StoreCommit(cfg, table, tile, version) ==
    LET nodes == node_count(tile)
        data == Subarray0(cfg, tile.data, cfg.nodesStart + nodes * cfg.fieldWidth)
    IN IF nodes = 0
       THEN [err |-> "none", table |-> table, called |-> FALSE]
       ELSE LET r == IF version = Undefined
                     THEN SQLiteInsert(table, tile.id, data)
                     ELSE SQLiteReplace(table, tile.id, data, version)
            IN [err |-> r.err, table |-> r.table, called |-> TRUE]

\* ------------------------------------------------------------------------
\* TileLog (tiles.ts)
\* ------------------------------------------------------------------------
\* the record of a commit in the log of a call
CommitEntry(adder, version, c) ==
    [id |-> adder.id, version |-> version, err |-> c.err, nodes |-> node_count(adder)]

\* the catch (TileFullError) branch of the loop of TileLog.append, c the result
\* of committing the tile just filled
OnTileFull(cfg, adder, version, leaf, c) ==
    IF c.err # "none"
    THEN [err |-> c.err, table |-> c.table, adder |-> adder, version |-> version,
          index |-> Undefined, commits |-> <<CommitEntry(adder, version, c)>>]
    ELSE LET added(r2) ==
                 [err |-> r2.err, table |-> c.table, adder |-> r2.db,
                  version |-> Undefined, index |-> r2.i,
                  commits |-> IF c.called THEN <<CommitEntry(adder, version, c)>> ELSE << >>]
         IN added(append_leaf(cfg, TileCreate(cfg, adder), leaf))

\* One iteration of the loop of TileLog.append over the leaves:
\* [err, table, adder, version, index, commits]; commits lists the commits it made
AppendLoopBody(cfg, table, adder, version, leaf) ==
    LET tried(r) ==
            IF r.err = "none"
            THEN [err |-> "none", table |-> table, adder |-> r.db, version |-> version,
                  index |-> r.i, commits |-> << >>]
            ELSE IF r.err = "TileFullError"
            THEN OnTileFull(cfg, adder, version, leaf, StoreCommit(cfg, table, adder, version))
            ELSE [err |-> r.err, table |-> table, adder |-> r.db, version |-> version,
                  index |-> Undefined, commits |-> << >>]
    IN tried(append_leaf(cfg, adder, leaf))

\* the commit that follows the loop of TileLog.append, c its result
LastCommit(adder, version, leaves, indices, c) ==
    [err |-> c.err, done |-> TRUE, table |-> c.table, adder |-> adder,
     version |-> version, leaves |-> leaves, indices |-> indices,
     commits |-> IF c.called THEN <<CommitEntry(adder, version, c)>> ELSE << >>]

\* TileLog.append from a point of its loop up to and including its next call of
\* the storage provider (a commit): [err, done, table, adder, version, leaves,
\* indices, commits]; done tells that append returned or raised
RECURSIVE AppendLoop(_, _, _, _, _, _)
AppendLoop(cfg, table, adder, version, leaves, indices) ==
    IF leaves = << >>
    THEN LastCommit(adder, version, leaves, indices, StoreCommit(cfg, table, adder, version))
    ELSE LET iterated(r) ==
                 IF r.err # "none"
                 THEN [err |-> r.err, done |-> TRUE, table |-> r.table, adder |-> r.adder,
                       version |-> r.version, leaves |-> leaves, indices |-> indices,
                       commits |-> r.commits]
                 ELSE IF r.commits # << >>
                 THEN [err |-> "none", done |-> FALSE, table |-> r.table, adder |-> r.adder,
                       version |-> r.version, leaves |-> Tail(leaves),
                       indices |-> Append(indices, r.index), commits |-> r.commits]
                 ELSE AppendLoop(cfg, r.table, r.adder, r.version, Tail(leaves),
                                 Append(indices, r.index))
         IN iterated(AppendLoopBody(cfg, table, adder, version, Head(leaves)))

RECURSIVE AppendLoopToEnd(_, _, _, _, _, _)
AppendLoopToEnd(cfg, table, adder, version, leaves, indices) ==
    LET resumed(r) ==
            IF r.done THEN r
            ELSE AppendLoopToEnd(cfg, r.table, r.adder, r.version, r.leaves, r.indices)
    IN resumed(AppendLoop(cfg, table, adder, version, leaves, indices))

\* TileLog.append(leaves) run without interruption: [err, table, indices]
TileLogAppend(cfg, table, leaves) ==
    LET looped(r) == [err |-> r.err, table |-> r.table, indices |-> r.indices]
        started(h) ==
            IF h.err # "none"
            THEN [err |-> h.err, table |-> table, indices |-> << >>]
            ELSE looped(AppendLoopToEnd(cfg, table, h.tile, h.version, leaves, << >>))
    IN started(StoreHead(cfg, table))

\* TileLog.get: [err, got, value]; got is the cached tile after the call
LogGet(cfg, table, cached, i) ==
    LET fetched == StoreGet(cfg, table, get_tileid(cfg, i))
        viaFetch == IF fetched.err # "none"
                    THEN [err |-> fetched.err, got |-> cached, value |-> ZeroField]
                    ELSE LET g == TileGet(cfg, fetched.tile, i)
                         IN [err |-> IF g.ok THEN "none" ELSE "MMRIndexRangeError",
                             got |-> fetched.tile, value |-> g.value]
    IN IF ~IsTile(cached)
       THEN viaFetch
       ELSE LET g == TileGet(cfg, cached, i)
            IN IF g.ok
               THEN [err |-> "none", got |-> cached, value |-> g.value]
               ELSE viaFetch

\* Tile.enumerate_nodes(first, last): [err, values]
TileEnumerateNodes(cfg, t, first, last) ==
    IF first < t.firstIndex \/ last < first \/ last >= t.nextIndex
    THEN [err |-> "Error", values |-> << >>]
    ELSE [err |-> "none",
          values |-> [k \in 1..(last - first + 1) |-> TileGet(cfg, t, first + k - 1).value]]

\* Tile.enumerate_leaves(firstLeaf, lastLeaf): [err, values]
TileEnumerateLeaves(cfg, t, firstLeaf, lastLeaf) ==
    IF lastLeaf < firstLeaf
    THEN [err |-> "Error", values |-> << >>]
    ELSE IF mmr_index(firstLeaf) < t.firstIndex \/ mmr_index(lastLeaf) >= t.nextIndex
    THEN [err |-> "Error", values |-> << >>]
    ELSE [err |-> "none",
          values |-> [k \in 1..(lastLeaf - firstLeaf + 1) |->
                         read_index(cfg, t, mmr_index(firstLeaf + k - 1))]]

\* The loop of TileLog.enumerate_nodes over the tile ids. The ids are the
\* quotients num / leafCount of a division that is not rounded, counted up by
\* one (num by leafCount) while id <= endid (num <= endnum); store.get of an id
\* that is not a whole number finds no record. [err, values], values what was
\* yielded before the error
RECURSIVE EnumerateNodesLoop(_, _, _, _, _, _, _)
EnumerateNodesLoop(cfg, table, first, last, num, endnum, acc) ==
    IF num > endnum
    THEN [err |-> "none", values |-> acc]
    ELSE IF num % cfg.leafCount # 0
    THEN [err |-> "Error", values |-> acc]
    ELSE LET read(g) ==
                 IF g.err # "none"
                 THEN [err |-> g.err, values |-> acc]
                 ELSE LET start == IF first < g.tile.firstIndex THEN g.tile.firstIndex ELSE first
                          end == IF last > g.tile.nextIndex - 1 THEN g.tile.nextIndex - 1 ELSE last
                          yielded(e) ==
                              IF e.err # "none"
                              THEN [err |-> e.err, values |-> acc]
                              ELSE EnumerateNodesLoop(cfg, table, first, last,
                                       num + cfg.leafCount, endnum, acc \o e.values)
                      IN yielded(TileEnumerateNodes(cfg, g.tile, start, end))
         IN read(StoreGet(cfg, table, num \div cfg.leafCount))

\* TileLog.enumerate_nodes(first, last), run to its end: [err, values]
LogEnumerateNodes(cfg, table, first, last) ==
    IF first < 0 \/ last < first
    THEN [err |-> "Error", values |-> << >>]
    ELSE EnumerateNodesLoop(cfg, table, first, last,
             leaf_count(first) - 1, leaf_count(last) - 1, << >>)

\* The loop of TileLog.enumerate_leaves over the tile ids, the quotients
\* num / leafCount of a division that is not rounded: [err, values]
RECURSIVE EnumerateLeavesLoop(_, _, _, _, _, _, _)
EnumerateLeavesLoop(cfg, table, first, last, num, endnum, acc) ==
    IF num > endnum
    THEN [err |-> "none", values |-> acc]
    ELSE IF num % cfg.leafCount # 0
    THEN [err |-> "Error", values |-> acc]
    ELSE LET read(g) ==
                 IF g.err # "none"
                 THEN [err |-> g.err, values |-> acc]
                 ELSE LET start == IF first < g.tile.id * cfg.leafCount
                                   THEN g.tile.id * cfg.leafCount ELSE first
                          end == IF last > (g.tile.id + 1) * cfg.leafCount - 1
                                 THEN (g.tile.id + 1) * cfg.leafCount - 1 ELSE last
                          yielded(e) ==
                              IF e.err # "none"
                              THEN [err |-> e.err, values |-> acc]
                              ELSE EnumerateLeavesLoop(cfg, table, first, last,
                                       num + cfg.leafCount, endnum, acc \o e.values)
                      IN yielded(TileEnumerateLeaves(cfg, g.tile, start, end))
         IN read(StoreGet(cfg, table, num \div cfg.leafCount))

\* TileLog.enumerate_leaves(first, last), run to its end: [err, values]
LogEnumerateLeaves(cfg, table, first, last) ==
    IF first < 0 \/ last < first
    THEN [err |-> "Error", values |-> << >>]
    ELSE EnumerateLeavesLoop(cfg, table, first, last, first, last, << >>)

\* ------------------------------------------------------------------------
\* State
\* ------------------------------------------------------------------------
NumWriters == 2
Writers == 1..NumWriters
TileHeights == 0..MaxTileHeight

VARIABLES
    cfg,        \* the TileFormat every TileLog instance is configured with
    writers,    \* the TileLog instances that append to the store
    table,      \* the records table of the storage provider
    pc,         \* per writer: "idle", or "loop" inside TileLog.append
    adder,      \* per writer: the local adder of the running append
    version,    \* per writer: the local version of the running append
    leaves,     \* per writer: the leaves the loop has still to add
    indices,    \* per writer: the local indices of the running append, then what it returned
    batch,      \* per writer: the argument of the current or last append
    outcome,    \* per writer: "none", "returned" or the error the last append raised
    calllog,    \* per writer: head read and commits of the current or last append
    appended,   \* the leaves of the appends that returned, in order of return
    history,    \* the batch sizes of the append calls made so far
    got,        \* the tile cached by the reading TileLog instance
    replaces,   \* per stored tile: the replace_tile calls on it that succeeded
    arg,        \* the argument of a call of the index algebra
    res         \* the values that call returned

vars == <<cfg, writers, table, pc, adder, version, leaves, indices, batch, outcome,
          calllog, appended, history, got, replaces, arg, res>>

RECURSIVE SumSeq(_)
SumSeq(q) == IF q = << >> THEN 0 ELSE Head(q) + SumSeq(Tail(q))

calls == Len(history)
submitted == SumSeq(history)

\* The batches a writer may pass to append: n leaves, each of a value no other
\* leaf has: 100 * w + s for the s-th leaf submitted to the log by any writer.
Batches(w) == {[k \in 1..n |-> <<100 * w + submitted + k>>] : n \in 0..MaxBatch}

NoCall == [head |-> <<Undefined, Undefined>>, base |-> 0, commits |-> << >>]

\* no call of the index algebra has returned
NoResult == [none |-> TRUE]

InitLog(ws) ==
    /\ cfg \in {Format(h) : h \in TileHeights}
    /\ writers = ws
    /\ table = EmptyTable
    /\ pc = [w \in Writers |-> "idle"]
    /\ adder = [w \in Writers |-> NoTile]
    /\ version = [w \in Writers |-> Undefined]
    /\ leaves = [w \in Writers |-> << >>]
    /\ indices = [w \in Writers |-> << >>]
    /\ batch = [w \in Writers |-> << >>]
    /\ outcome = [w \in Writers |-> "none"]
    /\ calllog = [w \in Writers |-> NoCall]
    /\ appended = << >>
    /\ history = << >>
    /\ got = NoTile
    /\ replaces = << >>

InitWith(ws) ==
    /\ InitLog(ws)
    /\ arg = Undefined
    /\ res = NoResult

Init == InitWith(Writers)
InitSingle == InitWith({1})

\* the successful replace_tile calls per tile after the commits of a step: a
\* tile starts at none when it is created
RECURSIVE CountReplaces(_, _)
CountReplaces(counts, commits) ==
    IF commits = << >> THEN counts
    ELSE LET c == Head(commits)
             counted == IF c.err # "none" THEN counts
                        ELSE IF c.version = Undefined
                        THEN [k \in DOMAIN counts \cup {c.id} |->
                                 IF k = c.id THEN 0 ELSE counts[k]]
                        ELSE [counts EXCEPT ![c.id] = @ + 1]
         IN CountReplaces(counted, Tail(commits))

\* TileLog.append(b), up to the loop: store.head()
StartAppend(w, b) ==
    /\ w \in writers
    /\ pc[w] = "idle"
    /\ LET started(h) ==
               /\ pc' = [pc EXCEPT ![w] = IF h.err = "none" THEN "loop" ELSE "idle"]
               /\ outcome' = [outcome EXCEPT ![w] = IF h.err = "none" THEN "none" ELSE h.err]
               /\ adder' = [adder EXCEPT ![w] = h.tile]
               /\ version' = [version EXCEPT ![w] = h.version]
               /\ calllog' = [calllog EXCEPT ![w] =
                      [head |-> <<IF IsTile(h.tile) THEN h.tile.id ELSE Undefined, h.version>>,
                       base |-> IF IsTile(h.tile) THEN leaf_count(h.tile.nextIndex - 1) ELSE 0,
                       commits |-> << >>]]
       IN started(StoreHead(cfg, table))
    /\ leaves' = [leaves EXCEPT ![w] = b]
    /\ batch' = [batch EXCEPT ![w] = b]
    /\ indices' = [indices EXCEPT ![w] = << >>]
    /\ history' = Append(history, Len(b))
    /\ UNCHANGED <<cfg, writers, table, appended, got, replaces, arg, res>>

\* an append call within the bounds of the model
AppendCall(w, b) ==
    /\ submitted + Len(b) <= MaxLeaves
    /\ calls < (IF Cardinality(writers) = 1 THEN MaxCalls ELSE MaxRaceCalls)
    /\ StartAppend(w, b)

\* the batches of a build of up to MaxBuildLeaves leaves: a few leaves, or
\* all the leaves in one shot
BuildBatches(w) ==
    {[k \in 1..n |-> <<100 * w + submitted + k>>] : n \in (1..MaxBatch) \cup {MaxBuildLeaves}}

\* an append call of a build
BuildCall(w, b) ==
    /\ submitted + Len(b) <= MaxBuildLeaves
    /\ StartAppend(w, b)

\* TileLog.append: the loop from where it stands up to and including the next
\* commit; after the last commit append returns, after a failed one it raises
AppendStep(w) ==
    /\ pc[w] = "loop"
    /\ LET stepped(r) ==
               /\ table' = r.table
               /\ calllog' = [calllog EXCEPT ![w].commits = @ \o r.commits]
               /\ replaces' = CountReplaces(replaces, r.commits)
               /\ IF r.done
                  THEN /\ pc' = [pc EXCEPT ![w] = "idle"]
                       /\ outcome' = [outcome EXCEPT ![w] =
                              IF r.err = "none" THEN "returned" ELSE r.err]
                       /\ appended' = IF r.err = "none" THEN appended \o batch[w] ELSE appended
                       /\ adder' = [adder EXCEPT ![w] = NoTile]
                       /\ version' = [version EXCEPT ![w] = Undefined]
                       /\ leaves' = [leaves EXCEPT ![w] = << >>]
                       /\ indices' = [indices EXCEPT ![w] =
                              IF r.err = "none" THEN r.indices ELSE << >>]
                  ELSE /\ adder' = [adder EXCEPT ![w] = r.adder]
                       /\ version' = [version EXCEPT ![w] = r.version]
                       /\ leaves' = [leaves EXCEPT ![w] = r.leaves]
                       /\ indices' = [indices EXCEPT ![w] = r.indices]
                       /\ UNCHANGED <<pc, outcome, appended>>
       IN stepped(AppendLoop(cfg, table, adder[w], version[w], leaves[w], indices[w]))
    /\ UNCHANGED <<cfg, writers, batch, history, got, arg, res>>

MaxIndex == mmr_index(MaxLeaves)

\* TileLog.get(i) on the reading instance
Get(i) ==
    /\ got' = LogGet(cfg, table, got, i).got
    /\ UNCHANGED <<cfg, writers, table, pc, adder, version, leaves, indices, batch, outcome,
                   calllog, appended, history, replaces, arg, res>>

\* the appends of the writers, without a reader
Appends ==
    \/ \E w \in Writers : \E b \in Batches(w) : AppendCall(w, b)
    \/ \E w \in Writers : AppendStep(w)

Next ==
    \/ \E w \in Writers : \E b \in Batches(w) : AppendCall(w, b)
    \/ \E w \in Writers : AppendStep(w)
    \/ \E i \in 0..MaxIndex : Get(i)

\* one writer on one store
Spec == InitSingle /\ [][Appends]_vars
\* one writer and a reading TileLog instance on one store
SpecReader == InitSingle /\ [][Next]_vars
\* two writers racing on one store
SpecWriters == Init /\ [][Appends]_vars

\* one writer building a log of up to MaxBuildLeaves leaves
Builds ==
    \/ \E b \in BuildBatches(1) : BuildCall(1, b)
    \/ AppendStep(1)

SpecBuild == InitSingle /\ [][Builds]_vars

\* ------------------------------------------------------------------------
\* Calls of the index algebra on their own (no log is written)
\* ------------------------------------------------------------------------
InitIndex ==
    /\ InitLog({1})
    /\ arg \in 0..MaxLeafIndex
    /\ res = NoResult

LogUnchanged ==
    UNCHANGED <<cfg, writers, table, pc, adder, version, leaves, indices, batch, outcome,
                calllog, appended, history, got, replaces>>

\* leaf_count applied to the index of leaf arg, to the last index of the MMR
\* that leaf completes, and to complete_mmr of the leaf's index
CountLeaves ==
    /\ res = NoResult
    /\ res' = [atLeaf |-> leaf_count(mmr_index(arg)),
               atLast |-> leaf_count(mmr_index(arg + 1) - 1),
               atComplete |-> leaf_count(complete_mmr(mmr_index(arg)))]
    /\ arg' = arg
    /\ LogUnchanged

SpecLeafCount == InitIndex /\ [][CountLeaves]_vars
\* ------------------------------------------------------------------------
\* Reading the stored log
\* ------------------------------------------------------------------------
\* the node slots of a stored image
NodeSlots(data) == SubSeq(data, cfg.nodesStart \div cfg.fieldWidth + 1, Len(data))

\* the node slots of the stored tiles, in tile id order
RECURSIVE NodesUpTo(_, _)
NodesUpTo(t, id) ==
    IF id < 0 THEN << >>
    ELSE NodesUpTo(t, id - 1) \o (IF id \in DOMAIN t THEN NodeSlots(t[id].data) ELSE << >>)

StoredNodes(t) == IF DOMAIN t = {} THEN << >> ELSE NodesUpTo(t, MaxId(t))

\* the stored images without their versions
Images(t) == [id \in DOMAIN t |-> t[id].data]

\* the nodes add_leaf_hash produces over one flat array
\* (the leaves are added in order, one half of the list after the other; a
\* leaf that fails ends the additions)
RECURSIVE FlatAdd(_, _)
FlatAdd(db, ls) ==
    IF ls = << >> THEN [ok |-> TRUE, db |-> db]
    ELSE IF Len(ls) = 1
    THEN LET added(r) == [ok |-> r.ok, db |-> r.db]
         IN added(add_leaf_hash(cfg, db, ls[1]))
    ELSE LET half == Len(ls) \div 2
             rest(r) == IF r.ok THEN FlatAdd(r.db, SubSeq(ls, half + 1, Len(ls))) ELSE r
         IN rest(FlatAdd(db, SubSeq(ls, 1, half)))

FlatMMR(db, ls) == FlatAdd(db, ls).db

Idle == \A w \in Writers : pc[w] = "idle"

\* ------------------------------------------------------------------------
\* C1
\* ------------------------------------------------------------------------
\* C1: for a single writer starting from an empty store, after any sequence of
\* appends that returned, the node slots of the stored tiles read in tile id
\* order are exactly the nodes add_leaf_hash produces over one flat array for
\* the same leaves: leaf e is at index mmr_index(e) and n leaves give
\* mmr_index(n) nodes.
C1_TilesHoldFlatMMR ==
    Idle =>
        LET nodes == StoredNodes(table)
        IN /\ nodes = FlatMMR(LeafAdder, appended).nodes
           /\ Len(nodes) = mmr_index(Len(appended))
           /\ \A e \in 0..(Len(appended) - 1) : nodes[mmr_index(e) + 1] = appended[e + 1]

\* a log of several tiles, built by more than one append, whose last tile is
\* not the first
C1_Witness ==
    /\ Idle
    /\ Len(appended) >= 5
    /\ Len(history) >= 2
    /\ Cardinality(DOMAIN table) >= 2
    /\ StoredNodes(table) = FlatMMR(LeafAdder, appended).nodes

\* ------------------------------------------------------------------------
\* C2
\* ------------------------------------------------------------------------
\* C2: a log built by appending its leaves one at a time (one append call per
\* leaf) has the same tile ids and the same stored images as the log built by a
\* single append of all the leaves; only the versions may differ.
C2_OneAtATimeEqualsOneBatch ==
    (Idle /\ \A k \in 1..Len(history) : history[k] = 1) =>
        LET oneshot == TileLogAppend(cfg, EmptyTable, appended)
        IN /\ oneshot.err = "none"
           /\ Images(table) = Images(oneshot.table)

\* four leaves appended one at a time; the stored versions differ from those
\* of the single batch
C2_Witness ==
    /\ Idle
    /\ Len(history) >= 4
    /\ \A k \in 1..Len(history) : history[k] = 1
    /\ Images(table) = Images(TileLogAppend(cfg, EmptyTable, appended).table)
    /\ table # TileLogAppend(cfg, EmptyTable, appended).table
\* ------------------------------------------------------------------------
\* Reading nodes through TileLog.get
\* ------------------------------------------------------------------------
NodeCount == Len(StoredNodes(table))

NodeAt(i) == StoredNodes(table)[i + 1]

\* the indices that are the last node of a complete MMR held by the log
CompleteIn(n) == {c \in 0..(n - 1) : complete_mmr(c) = c}

\* idxs.map((i) => log.get(i)): [ok, values, got]
RECURSIVE LogGetAll(_, _, _)
LogGetAll(cached, idxs, acc) ==
    IF idxs = << >> THEN [ok |-> TRUE, values |-> acc, got |-> cached]
    ELSE LET g == LogGet(cfg, table, cached, Head(idxs))
         IN IF g.err # "none"
            THEN [ok |-> FALSE, values |-> acc, got |-> g.got]
            ELSE LogGetAll(g.got, Tail(idxs), Append(acc, g.value))

\* paths.map((path) => path.map((i) => log.get(i))): [ok, values, got]
RECURSIVE LogGetPaths(_, _, _)
LogGetPaths(cached, paths, acc) ==
    IF paths = << >> THEN [ok |-> TRUE, values |-> acc, got |-> cached]
    ELSE LET g == LogGetAll(cached, Head(paths), << >>)
         IN IF ~g.ok
            THEN [ok |-> FALSE, values |-> acc, got |-> g.got]
            ELSE LogGetPaths(g.got, Tail(paths), Append(acc, g.values))

\* ------------------------------------------------------------------------
\* C3
\* ------------------------------------------------------------------------
\* C3: for every node index i in the log and every complete MMR index c >= i in
\* the log, every log.get of the proof succeeds and included_root over
\* log.get(i) and the values log.get returns along inclusion_proof_path(i, c)
\* is the stored value of the peak of MMR(c) that covers i.
C3_InclusionProofsVerify ==
    Idle =>
        \A i \in 0..(NodeCount - 1) : \A c \in CompleteIn(NodeCount) :
            c >= i =>
                LET g == LogGet(cfg, table, got, i)
                    p == LogGetAll(g.got, inclusion_proof_path(i, c), << >>)
                IN /\ g.err = "none"
                   /\ p.ok
                   /\ included_root(i, g.value, p.values) = NodeAt(accumulator_root(i, c))

\* ------------------------------------------------------------------------
\* C4
\* ------------------------------------------------------------------------
\* C4: for every pair of complete MMR indices from <= to in the log,
\* consistent_roots over the log.get values of peaks(from) and of
\* consistency_proof_paths(from, to) returns a non-empty list that equals,
\* element by element, a prefix of the values of peaks(to).
C4_ConsistencyProofsVerify ==
    Idle =>
        \A ifrom \in CompleteIn(NodeCount) : \A ito \in CompleteIn(NodeCount) :
            ifrom <= ito =>
                LET proof == LogGetPaths(got, consistency_proof_paths(ifrom, ito), << >>)
                    accumulatorfrom == LogGetAll(proof.got, peaks(ifrom), << >>)
                    accumulatorto == LogGetAll(accumulatorfrom.got, peaks(ito), << >>)
                    proven == consistent_roots(ifrom, accumulatorfrom.values, proof.values)
                IN /\ proof.ok /\ accumulatorfrom.ok /\ accumulatorto.ok
                   /\ proven.ok
                   /\ Len(proven.roots) > 0
                   /\ Len(proven.roots) <= Len(accumulatorto.values)
                   /\ proven.roots = SubSeq(accumulatorto.values, 1, Len(proven.roots))

\* ------------------------------------------------------------------------
\* C5
\* ------------------------------------------------------------------------
\* C5: after any sequence of appends that returned and of earlier gets,
\* TileLog.get(i) returns the value of node i for every node index i that has
\* been appended, the last node of the last full tile included.
C5_GetReturnsEveryNode ==
    Idle =>
        \A i \in 0..(NodeCount - 1) :
            /\ LogGet(cfg, table, got, i).err = "none"
            /\ LogGet(cfg, table, got, i).value = NodeAt(i)

\* ------------------------------------------------------------------------
\* C10
\* ------------------------------------------------------------------------
\* the tiles of the store, as Tile.load builds them, and the tiles the running
\* appends are filling
StoredTiles == {TileLoad(cfg, table[id].data).tile : id \in DOMAIN table}
OpenTiles == {adder[w] : w \in {x \in Writers : pc[x] = "loop"}}

\* the pairs <<i, j>>: i a node of t and j an index of its path
\* inclusion_proof_path(i, lastLeafMMRIndex(t))
TilePathPairs(t) ==
    UNION {LET path == inclusion_proof_path(i, t.lastLeafMMRIndex)
           IN {<<i, path[k]>> : k \in 1..Len(path)} : i \in t.firstIndex..(t.nextIndex - 1)}

\* C10 as stated: for every tile T built by the append pipeline and every node i
\* of T, T.get succeeds for every index of
\* inclusion_proof_path(i, lastLeafMMRIndex(T)).
C10_TileGetServesEveryPathIndex ==
    \A t \in StoredTiles \cup OpenTiles :
        \A ij \in TilePathPairs(t) : TileGet(cfg, t, ij[2]).ok

\* every index of the paths of t is in the index range of t or a key of its
\* ancestor peaks, and t.get succeeds for those t already holds
SelfContained(t) ==
    \A ij \in TilePathPairs(t) :
        /\ ij[2] \in t.firstIndex..t.lastLeafMMRIndex \/ ij[2] \in DOMAIN t.ancestorPeaks
        /\ ij[2] < t.nextIndex => TileGet(cfg, t, ij[2]).ok

\* C10, amended: every index of inclusion_proof_path(i, lastLeafMMRIndex(T)) is
\* in the index range of T (firstIndex..lastLeafMMRIndex) or a key of
\* T.ancestorPeaks; T.get succeeds for each of them that T already holds (an
\* ancestor peak, or an index below nextIndex), so for all of them once T holds
\* its last leaf, and for a stored tile it returns the stored value of that node.
C10_TileSelfContained ==
    /\ \A t \in StoredTiles \cup OpenTiles : SelfContained(t)
    /\ Idle =>
          LET nodes == StoredNodes(table)
          IN \A t \in StoredTiles : \A ij \in TilePathPairs(t) :
                 ij[2] < t.nextIndex => TileGet(cfg, t, ij[2]).value = nodes[ij[2] + 1]

\* a stored tile that holds its last leaf and has a node whose path takes a
\* value from the ancestor peaks and a value from the tile's own nodes
C10_Witness ==
    \E t \in StoredTiles :
        /\ t.nextIndex > t.lastLeafMMRIndex
        /\ SelfContained(t)
        /\ \E ij \in TilePathPairs(t) : \E ik \in TilePathPairs(t) :
              /\ ij[1] = ik[1]
              /\ ij[2] \in DOMAIN t.ancestorPeaks
              /\ ik[2] >= t.firstIndex
              /\ TileGet(cfg, t, ij[2]).ok /\ TileGet(cfg, t, ik[2]).ok

\* ------------------------------------------------------------------------
\* Leaves of racing writers in the stored log
\* ------------------------------------------------------------------------
StoredLeafCount == IF NodeCount = 0 THEN 0 ELSE leaf_count(NodeCount - 1)

\* the stored leaf number e (0 based)
StoredLeaf(e) == NodeAt(mmr_index(e))

\* the writer whose append added a leaf
WriterOf(leaf) == leaf[1] \div 100

Errors == {"ChangedError", "ExistsError", "EmptyError", "MMRIndexRangeError", "Error"}

Returned(w) == pc[w] = "idle" /\ outcome[w] = "returned"
Raised(w) == pc[w] = "idle" /\ outcome[w] \in Errors

IsOk(entry) == entry.err = "none"

\* the commits of the last append of w that succeeded
Committed(w) == SelectSeq(calllog[w].commits, IsOk)

\* the number of leaves of the last batch of w that its successful commits hold
CommittedLeaves(w) ==
    IF Committed(w) = << >> THEN 0
    ELSE LET e == Committed(w)[Len(Committed(w))]
             last == mmr_index(e.id * cfg.leafCount) + e.nodes - 1
         IN leaf_count(last) - calllog[w].base

IsPrefix(a, b) == Len(a) <= Len(b) /\ a = SubSeq(b, 1, Len(a))

\* ------------------------------------------------------------------------
\* C6
\* ------------------------------------------------------------------------
\* C6: TileLog.append is all-or-nothing under any interleaving with other
\* writers: after a call returned all of its leaves are stored (from the leaf
\* count it read at the head on), and after a call raised none of its leaves are
\* stored, also for batches that span several tiles.
C6_AppendAllOrNothing ==
    \A w \in Writers :
        /\ Returned(w) =>
              \A k \in 1..Len(batch[w]) :
                  /\ calllog[w].base + k <= StoredLeafCount
                  /\ StoredLeaf(calllog[w].base + k - 1) = batch[w][k]
        /\ Raised(w) =>
              \A e \in calllog[w].base..(StoredLeafCount - 1) : WriterOf(StoredLeaf(e)) # w

\* ------------------------------------------------------------------------
\* C7
\* ------------------------------------------------------------------------
\* both writers read the same stored head tile at the same version and both
\* have made the commit that extends it
RacedOnHead(a, b) ==
    /\ a # b
    /\ calllog[a].head = calllog[b].head
    /\ calllog[a].head[2] # Undefined
    /\ calllog[a].commits # << >>
    /\ calllog[b].commits # << >>

\* the step is a commit of w that fails with ChangedError
ChangedStep(w) ==
    /\ Len(calllog'[w].commits) > Len(calllog[w].commits)
    /\ calllog'[w].commits[Len(calllog'[w].commits)].err = "ChangedError"

\* C7: when two writers read the same head tile at the same version and both
\* commit an extension of it, exactly one commit succeeds and the other fails
\* with ChangedError; the commit that fails leaves the stored bytes as they are.
\* (Where more writers race on that version, at most one of any two succeeds,
\* the others fail with ChangedError, and one commit at that version succeeded:
\* the stored counter has moved past it.)
C7_OneWinnerOnHead ==
    /\ [](\A a \in Writers : \A b \in Writers :
            RacedOnHead(a, b) =>
                LET errs == {calllog[a].commits[1].err, calllog[b].commits[1].err}
                IN /\ errs \subseteq {"none", "ChangedError"}
                   /\ errs # {"none"}
                   /\ table[calllog[a].head[1]].counter > calllog[a].head[2]
                   /\ Cardinality(writers) = 2 => errs = {"none", "ChangedError"})
    /\ [][\A w \in Writers : ChangedStep(w) => table' = table]_vars

\* two writers raced with leaves to add: one won, the other was refused
C7_Witness ==
    \E a \in Writers : \E b \in Writers :
        /\ RacedOnHead(a, b)
        /\ batch[a] # << >> /\ batch[b] # << >>
        /\ calllog[a].commits[1].err = "none"
        /\ calllog[b].commits[1].err = "ChangedError"
        /\ Returned(a) /\ Raised(b)
        /\ WriterOf(StoredLeaf(calllog[a].base)) = a

\* ------------------------------------------------------------------------
\* C8
\* ------------------------------------------------------------------------
\* C8: under any interleaving of appends the stored content is append-only: no
\* tile is removed, the stored image of a tile is a prefix of every later image
\* of it, and the value of a node index that can be read stays the same.
C8_AppendOnly ==
    [][/\ \A id \in DOMAIN table :
              /\ id \in DOMAIN table'
              /\ IsPrefix(table[id].data, table'[id].data)
       /\ IsPrefix(StoredNodes(table), StoredNodes(table'))]_vars

\* a stored tile that was replaced: a writer read it partly filled and
\* extended it, and a later tile is stored too
C8_Witness ==
    \E w \in Writers :
        /\ calllog[w].base % cfg.leafCount # 0
        /\ batch[w] # << >>
        /\ Committed(w) # << >>
        /\ Committed(w)[1].version # Undefined
        /\ Committed(w)[1].id \in DOMAIN table
        /\ table[Committed(w)[1].id].counter >= 1
        /\ Cardinality(DOMAIN table) >= 2

PeakSlots(t) ==
    [k \in 1..Len(peaks(t.firstIndex - 1)) |-> read_field(cfg, t.data, k - 1, cfg.peaksStart)]

\* the tile holds every node of its index range
IsFullTile(t) == t.nextIndex = mmr_index((t.id + 1) * cfg.leafCount)

\* the ancestor peaks of t are the peaks of the MMR that ends before t, with
\* the values of those nodes
CarriesAncestorPeaks(t, nodes) ==
    LET pk == peaks(t.firstIndex - 1)
    IN /\ Cardinality(DOMAIN t.ancestorPeaks) = ones(t.id)
       /\ Len(pk) = ones(t.id)
       /\ DOMAIN t.ancestorPeaks = {pk[k] : k \in 1..Len(pk)}
       /\ \A k \in 1..Len(pk) :
             /\ TileGet(cfg, t, pk[k]).ok
             /\ TileGet(cfg, t, pk[k]).value = nodes[pk[k] + 1]
             /\ PeakSlots(t)[k] = nodes[pk[k] + 1]

\* C11: in the chain of tiles of a log, each made by Tile.create from its full
\* predecessor, tile k >= 1 carries exactly popcount(k) ancestor peaks, their
\* keys are exactly peaks(firstIndex - 1) and their values are the values of
\* those nodes; next_peak_stack of a full tile keeps the first
\* popcount(id) - trailing_zeros(id + 1) peaks of the tile and appends the
\* tile's own last node.
C11_AncestorPeaksAreThePeaks ==
    Idle =>
        LET nodes == StoredNodes(table)
        IN /\ \A t \in StoredTiles : t.id >= 1 => CarriesAncestorPeaks(t, nodes)
           /\ \A t \in StoredTiles :
                 IsFullTile(t) =>
                    /\ next_peak_stack(cfg, t).peaks =
                          SubSeq(PeakSlots(t), 1, ones(t.id) - trailing_zeros64(t.id + 1))
                             \o <<nodes[t.nextIndex]>>
                    /\ TileCreate(cfg, t).id = t.id + 1
                    /\ CarriesAncestorPeaks(TileCreate(cfg, t), nodes)

\* a chain that reaches a tile with two ancestor peaks after a tile whose last
\* node merged two peaks away (tile 3 pops two, tile 5 keeps one and adds one)
C11_Witness ==
    /\ Idle
    /\ \E t \in StoredTiles : t.id = 3 /\ IsFullTile(t)
                              /\ Len(next_peak_stack(cfg, t).peaks) = 1
    /\ \E t \in StoredTiles : t.id = 5 /\ IsFullTile(t)
                              /\ Cardinality(DOMAIN t.ancestorPeaks) = 2
                              /\ Len(next_peak_stack(cfg, t).peaks) = 2

\* ------------------------------------------------------------------------
\* C12
\* ------------------------------------------------------------------------
\* the index fields of a tile that do not change while it is filled
TileFrame(t) ==
    /\ t.firstIndex = mmr_index(t.id * Pow2(cfg.tileHeight))
    /\ t.lastLeafMMRIndex = mmr_index((t.id + 1) * Pow2(cfg.tileHeight) - 1)

\* C12 as stated: in every reachable state every tile satisfies
\* firstIndex = mmr_index(id * 2^H),
\* lastLeafMMRIndex = mmr_index((id + 1) * 2^H - 1) and
\* firstIndex <= nextIndex <= lastLeafMMRIndex + 1, also after the last leaf of
\* the tile has been appended with append_leaf.
C12_NextIndexWithinLastLeaf ==
    \A t \in StoredTiles \cup OpenTiles :
        /\ TileFrame(t)
        /\ t.firstIndex <= t.nextIndex
        /\ t.nextIndex <= t.lastLeafMMRIndex + 1

\* C12, amended: every tile satisfies firstIndex = mmr_index(id * 2^H),
\* lastLeafMMRIndex = mmr_index((id + 1) * 2^H - 1) and
\* firstIndex <= nextIndex <= mmr_index((id + 1) * 2^H), the first index of
\* the next tile; nextIndex <= lastLeafMMRIndex holds until the last leaf of
\* the tile is appended, and after it
\* nextIndex = mmr_index((id + 1) * 2^H)
\*           = lastLeafMMRIndex + 1 + H + trailing_zeros(id + 1),
\* the interior nodes the last leaf completes being nodes of the tile. A stored
\* tile has firstIndex < nextIndex.
C12_NextIndexWithinTile ==
    /\ \A t \in StoredTiles \cup OpenTiles :
          /\ TileFrame(t)
          /\ t.firstIndex <= t.nextIndex
          /\ t.nextIndex <= mmr_index((t.id + 1) * Pow2(cfg.tileHeight))
          /\ \/ t.nextIndex <= t.lastLeafMMRIndex
             \/ /\ t.nextIndex = mmr_index((t.id + 1) * Pow2(cfg.tileHeight))
                /\ t.nextIndex = t.lastLeafMMRIndex + 1 + cfg.tileHeight
                                    + trailing_zeros64(t.id + 1)
          /\ append_leaf(cfg, t, <<0>>).err = "TileFullError"
                <=> t.nextIndex = mmr_index((t.id + 1) * Pow2(cfg.tileHeight))
    /\ \A t \in StoredTiles : t.firstIndex < t.nextIndex

\* a stored tile that holds its last leaf and the interior nodes after it, next
\* to a tile that is being filled and does not hold its last leaf yet
C12_Witness ==
    /\ \E t \in StoredTiles :
          /\ t.id >= 1
          /\ t.nextIndex > t.lastLeafMMRIndex + 2
          /\ append_leaf(cfg, t, <<0>>).err = "TileFullError"
    /\ \E t \in OpenTiles :
          /\ t.firstIndex < t.nextIndex
          /\ t.nextIndex <= t.lastLeafMMRIndex

LeafIndexOf(w, k) == CHOOSE e \in 0..(Len(appended) - 1) : appended[e + 1] = batch[w][k]

\* C14: TileLog.append(leaves) returns one index per leaf, and the k-th
\* returned value is the MMR index of the k-th added leaf (mmr_index of its
\* leaf index).
C14_AppendReturnsLeafIndices ==
    \A w \in writers :
        Returned(w) =>
            /\ Len(indices[w]) = Len(batch[w])
            /\ \A k \in 1..Len(batch[w]) :
                  /\ indices[w][k] = mmr_index(LeafIndexOf(w, k))
                  /\ StoredNodes(table)[indices[w][k] + 1] = batch[w][k]

\* what the calls return: one value per leaf, the k-th the index that follows
\* the nodes added for the k-th leaf, which is the index of the next leaf
AppendReturnsNextIndices ==
    \A w \in writers :
        Returned(w) =>
            /\ Len(indices[w]) = Len(batch[w])
            /\ \A k \in 1..Len(batch[w]) :
                  /\ indices[w][k] = mmr_index(LeafIndexOf(w, k) + 1)
                  /\ StoredNodes(table)[mmr_index(LeafIndexOf(w, k)) + 1] = batch[w][k]

\* ------------------------------------------------------------------------
\* C15
\* ------------------------------------------------------------------------
\* C15: for every log and every range 0 <= first <= last < total node count,
\* TileLog.enumerate_nodes(first, last) yields exactly the values of nodes
\* first, first + 1, ..., last, in ascending index order and each once, whatever
\* tiles first and last fall in and for every tile_height.
C15_EnumerateNodesYieldsRange ==
    Idle =>
        LET nodes == StoredNodes(table)
        IN \A first \in 0..(Len(nodes) - 1) : \A last \in first..(Len(nodes) - 1) :
               LET e == LogEnumerateNodes(cfg, table, first, last)
               IN /\ e.err = "none"
                  /\ e.values = SubSeq(nodes, first + 1, last + 1)

\* the id of the tile that holds node i
TileOfNode(i) ==
    CHOOSE id \in 0..i :
        mmr_index(id * cfg.leafCount) <= i /\ i < mmr_index((id + 1) * cfg.leafCount)

\* what the calls do: the range is yielded when (leaf_count(first) - 1) /
\* leafCount is the id of the tile of first and the whole part of
\* (leaf_count(last) - 1) / leafCount the id of the tile of last; otherwise the
\* call throws or ends before it has yielded the range
EnumerateNodesWhenIdsRight ==
    Idle =>
        LET nodes == StoredNodes(table)
        IN \A first \in 0..(Len(nodes) - 1) : \A last \in first..(Len(nodes) - 1) :
               LET e == LogEnumerateNodes(cfg, table, first, last)
               IN IF /\ leaf_count(first) - 1 = TileOfNode(first) * cfg.leafCount
                     /\ (leaf_count(last) - 1) \div cfg.leafCount = TileOfNode(last)
                  THEN e.err = "none" /\ e.values = SubSeq(nodes, first + 1, last + 1)
                  ELSE \/ e.err = "Error"
                       \/ Len(e.values) < last - first + 1

\* ------------------------------------------------------------------------
\* C16
\* ------------------------------------------------------------------------
\* C16: for every log and every range 0 <= firstLeaf <= lastLeaf < total leaf
\* count, TileLog.enumerate_leaves(firstLeaf, lastLeaf) yields exactly the
\* appended leaf values firstLeaf, ..., lastLeaf in ascending leaf order and
\* each once, also when firstLeaf is not the first leaf of its tile.
C16_EnumerateLeavesYieldsRange ==
    Idle =>
        \A first \in 0..(Len(appended) - 1) : \A last \in first..(Len(appended) - 1) :
            LET e == LogEnumerateLeaves(cfg, table, first, last)
            IN /\ e.err = "none"
               /\ e.values = SubSeq(appended, first + 1, last + 1)

\* what the calls do: the range is yielded when firstLeaf is the first leaf of
\* its tile, and nothing is yielded otherwise
EnumerateLeavesFromWholeIds ==
    Idle =>
        \A first \in 0..(Len(appended) - 1) : \A last \in first..(Len(appended) - 1) :
            LET e == LogEnumerateLeaves(cfg, table, first, last)
            IN IF first % cfg.leafCount = 0
               THEN e.err = "none" /\ e.values = SubSeq(appended, first + 1, last + 1)
               ELSE e.err = "Error" /\ e.values = << >>

\* ------------------------------------------------------------------------
\* C17
\* ------------------------------------------------------------------------
\* the last append of w read an empty store
ReadEmptyStore(w) == calllog[w].head = <<0, Undefined>>

\* C17: in every reachable store state no stored tile has zero nodes:
\* TileStore.head() on empty storage returns an in-memory empty tile with id 0
\* and no version without writing, TileStore.commit of a tile with zero nodes
\* makes no provider call, and so TileLog.append([]) on an empty store leaves
\* the store empty.
C17_NoEmptyTileStored ==
    /\ \A id \in DOMAIN table :
          /\ Len(table[id].data) * cfg.fieldWidth > cfg.nodesStart
          /\ node_count(TileLoad(cfg, table[id].data).tile) > 0
    /\ LET h == StoreHead(cfg, EmptyTable)
       IN /\ h.err = "none"
          /\ h.tile.id = 0
          /\ node_count(h.tile) = 0
          /\ h.version = Undefined
          /\ \A v \in {Undefined, 0} :
                StoreCommit(cfg, table, h.tile, v) =
                    [err |-> "none", table |-> table, called |-> FALSE]
    /\ \A t \in StoredTiles :
          IsFullTile(t) =>
              \A v \in {Undefined, 0} :
                  StoreCommit(cfg, table, TileCreate(cfg, t), v) =
                      [err |-> "none", table |-> table, called |-> FALSE]
    /\ TileLogAppend(cfg, EmptyTable, << >>) =
           [err |-> "none", table |-> EmptyTable, indices |-> << >>]
    /\ \A w \in writers :
          Returned(w) /\ batch[w] = << >> /\ ReadEmptyStore(w) =>
              calllog[w].commits = << >>
    /\ (\A k \in 1..Len(history) : history[k] = 0) /\ Idle => table = EmptyTable

\* an append of no leaves that read the empty store has returned and the
\* store is empty
C17_Witness ==
    /\ \E w \in writers : Returned(w) /\ batch[w] = << >> /\ ReadEmptyStore(w)
                          /\ calllog[w].commits = << >>
    /\ calls >= 1
    /\ table = EmptyTable

\* ------------------------------------------------------------------------
\* C18
\* ------------------------------------------------------------------------
\* the images a call may carry: those of the store and one of no store
Payloads == {table[id].data : id \in DOMAIN table} \cup {<<<<cfg.tileHeight, 0>>>>}

\* the ids and versions the calls are tried with
TriedIds == 0..(IF DOMAIN table = {} THEN 1 ELSE MaxId(table) + 1)
TriedVersions == 0..MaxRaceCalls

\* create_tile(id, data) on the current store is a compare-and-swap
CreateIsCAS(id, data) ==
    LET r == SQLiteInsert(table, id, data)
    IN IF id \notin DOMAIN table
       THEN /\ r.err = "none"
            /\ DOMAIN r.table = DOMAIN table \cup {id}
            /\ r.table[id] = [data |-> data, counter |-> 0]
            /\ \A k \in DOMAIN table : r.table[k] = table[k]
       ELSE /\ r.err = "ExistsError"
            /\ r.table = table

\* replace_tile(id, v, data) on the current store is a compare-and-swap
ReplaceIsCAS(id, v, data) ==
    LET r == SQLiteReplace(table, id, data, v)
    IN IF id \in DOMAIN table /\ table[id].counter = v
       THEN /\ r.err = "none"
            /\ DOMAIN r.table = DOMAIN table
            /\ r.table[id] = [data |-> data, counter |-> v + 1]
            /\ \A k \in DOMAIN table \ {id} : r.table[k] = table[k]
       ELSE /\ r.err = "ChangedError"
            /\ r.table = table

\* the step is a commit of w, and the provider call it made behaved as a
\* compare-and-swap on the store the step started from
CommitStepIsCAS(w) ==
    Len(calllog'[w].commits) = Len(calllog[w].commits) + 1 =>
        LET c == calllog'[w].commits[Len(calllog'[w].commits)]
        IN IF c.version = Undefined
           THEN IF c.id \notin DOMAIN table
                THEN /\ c.err = "none"
                     /\ DOMAIN table' = DOMAIN table \cup {c.id}
                     /\ table'[c.id].counter = 0
                     /\ \A k \in DOMAIN table : table'[k] = table[k]
                ELSE c.err = "ExistsError" /\ table' = table
           ELSE IF c.id \in DOMAIN table /\ table[c.id].counter = c.version
                THEN /\ c.err = "none"
                     /\ DOMAIN table' = DOMAIN table
                     /\ table'[c.id].counter = c.version + 1
                     /\ \A k \in DOMAIN table \ {c.id} : table'[k] = table[k]
                ELSE c.err = "ChangedError" /\ table' = table

\* C18: the storage provider is a compare-and-swap on (id, version):
\* create_tile(id, bytes) succeeds iff no record with that id exists and
\* stores it with version 0, otherwise it fails with ExistsError;
\* replace_tile(id, version, bytes) succeeds iff the stored version equals the
\* given version and then raises the stored version by exactly 1, otherwise it
\* fails with ChangedError; a failed call leaves the stored record unchanged.
C18_ProviderIsCompareAndSwap ==
    /\ [](\A id \in TriedIds : \A data \in Payloads :
             /\ CreateIsCAS(id, data)
             /\ \A v \in TriedVersions : ReplaceIsCAS(id, v, data))
    /\ [][\A w \in Writers : CommitStepIsCAS(w)]_vars

\* a store of tiles created with version 0, one of them replaced since by one
\* writer while the replace of another writer with the same version was refused
C18_Witness ==
    /\ \E id \in DOMAIN table : table[id].counter = 0
    /\ \E id \in DOMAIN table :
          /\ table[id].counter = 1
          /\ \E a \in writers : \E b \in writers \ {a} :
                /\ \E k \in 1..Len(calllog[a].commits) :
                      calllog[a].commits[k] \in
                          [id : {id}, version : {0}, err : {"none"}, nodes : 1..MaxIndex]
                /\ \E k \in 1..Len(calllog[b].commits) :
                      calllog[b].commits[k] \in
                          [id : {id}, version : {0}, err : {"ChangedError"}, nodes : 1..MaxIndex]

\* ------------------------------------------------------------------------
\* C19
\* ------------------------------------------------------------------------
\* C19: for every stored tile id, the version returned by read_tile(id), and so
\* by TileStore.get(id), is the current stored version of that tile (the same
\* value read_head returns when that tile is the head), so that
\* replace_tile(id, that version, bytes) succeeds when no other write to the
\* tile happened in between.
C19_ReadTileReturnsVersion ==
    \A id \in DOMAIN table :
        LET r == SQLiteRead(table, id)
            g == StoreGet(cfg, table, id)
        IN /\ r.err = "none"
           /\ r.counter = table[id].counter
           /\ g.version = table[id].counter
           /\ id = MaxId(table) => g.version = SQLiteReadHead(table).counter
           /\ SQLiteReplace(table, id, r.data, r.counter).err = "none"
           /\ StoreCommit(cfg, table, g.tile, g.version).err = "none"

\* what the calls do: read_tile returns the stored data and no version at all,
\* whatever the stored version is; a commit of the tile TileStore.get returned
\* is taken for a create and refused
ReadTileReturnsNoVersion ==
    \A id \in DOMAIN table :
        LET r == SQLiteRead(table, id)
            g == StoreGet(cfg, table, id)
        IN /\ r.err = "none"
           /\ r.data = table[id].data
           /\ r.counter = Undefined
           /\ g.version = Undefined
           /\ StoreCommit(cfg, table, g.tile, g.version).err = "ExistsError"
           /\ SQLiteReadHead(table).counter = table[MaxId(table)].counter

\* ------------------------------------------------------------------------
\* C20
\* ------------------------------------------------------------------------
\* the leaves of the five tile log of the append tests:
\* (1 << cfg.tile_height) * 5 with tile_height 1
numLeaves == ShiftLeft(1, 1) * 5

\* the log was built one leaf per append call
OneLeafPerCall == \A k \in 1..Len(history) : history[k] = 1

\* the head of the five tile log of the append tests
IsFiveTileHead(h, ver) ==
    /\ h.err = "none"
    /\ h.version = ver
    /\ h.tile.id = 4
    /\ h.tile.firstIndex = mmr_index(8)
    /\ h.tile.nextIndex = mmr_index(10)

FiveTileLogInOneShot ==
    /\ Idle
    /\ cfg.tileHeight = 1
    /\ history = <<numLeaves>>
    /\ Len(appended) = numLeaves
    /\ \A id \in DOMAIN replaces : replaces[id] = 0
    /\ IsFiveTileHead(StoreHead(cfg, table), 0)

\* ------------------------------------------------------------------------
\* C21
\* ------------------------------------------------------------------------
\* append_leaf refuses the tile as full
RefusedAsFull(t) == append_leaf(cfg, t, <<0>>).err = "TileFullError"

\* C21: TileLog.append never lets TileFullError reach its caller: for every
\* tile_height and every full parent tile, append_leaf on the tile just
\* returned by store.create(parent) succeeds, so the retry that follows a
\* TileFull never raises TileFull again.
C21_TileFullNeverSurfaces ==
    /\ \A w \in writers : outcome[w] # "TileFullError"
    /\ \A t \in StoredTiles \cup OpenTiles :
          RefusedAsFull(t) =>
              LET r == append_leaf(cfg, TileCreate(cfg, t), <<0>>)
              IN /\ r.err = "none"
                 /\ r.db.id = t.id + 1
                 /\ r.db.nextIndex > r.db.firstIndex
                 /\ OnTileFull(cfg, t, Undefined, <<0>>,
                               [err |-> "none", table |-> table, called |-> TRUE]).err = "none"

\* an append that met a full tile, committed it, created its successor and
\* returned, with another full tile in the store
C21_Witness ==
    /\ \E w \in writers :
          /\ Returned(w)
          /\ Len(calllog[w].commits) >= 2
          /\ calllog[w].commits[1].id < calllog[w].commits[2].id
    /\ \E t \in StoredTiles : RefusedAsFull(t) /\ t.id >= 1

\* ------------------------------------------------------------------------
\* C22
\* ------------------------------------------------------------------------
\* the formats of the tile heights other than the one the log was written with
OtherFormats == {Format(h) : h \in TileHeights \ {cfg.tileHeight}}

\* C22: Tile.load(cfg, bytes) fails with the tile-height-mismatch error
\* whenever the tile_height stored in the header of bytes differs from
\* cfg.tile_height, for every stored image whatever its id and length, and in
\* that case no tile is returned.
C22_LoadRejectsOtherHeight ==
    \A id \in DOMAIN table : \A other \in OtherFormats :
        LET l == TileLoad(other, table[id].data)
        IN /\ read_start_field(other, table[id].data)[1] # other.tileHeight
           /\ ~l.ok
           /\ l.tile = NoTile
           /\ l.err = "TileHeightMismatch"

\* what the calls do: no tile is returned; the error is the mismatch of the
\* tile height unless the image is longer than the buffer Tile.load allocates
\* for its id under the other tile height, and then it is the RangeError of
\* data.set(storeData)
LoadRejectsOtherHeightOrLength ==
    \A id \in DOMAIN table : \A other \in OtherFormats :
        LET l == TileLoad(other, table[id].data)
        IN /\ ~l.ok
           /\ l.tile = NoTile
           /\ l.err = IF Len(table[id].data) * other.fieldWidth > max_tile_size(other, id)
                      THEN "RangeError" ELSE "TileHeightMismatch"

\* ------------------------------------------------------------------------
\* C23
\* ------------------------------------------------------------------------
\* the indices Tile.get is tried with: every node of the model and one more
GetIndices == 0..(MaxIndex + 1)

\* the position of p in peaks(firstIndex - 1) of tile t
PeakRank(t, p) ==
    CHOOSE k \in 1..Len(peaks(t.firstIndex - 1)) : peaks(t.firstIndex - 1)[k] = p

\* Tile.get(i) on t does what its three cases say
GetByCases(t, i) ==
    LET g == TileGet(cfg, t, i)
    IN IF i < t.firstIndex /\ i \in DOMAIN t.ancestorPeaks
       THEN /\ g.ok
            /\ g.value = t.data[cfg.peaksStart \div cfg.fieldWidth + PeakRank(t, i)]
            /\ g.value = StoredNodes(table)[i + 1]
       ELSE IF i < t.firstIndex \/ i >= t.nextIndex
       THEN ~g.ok
       ELSE /\ g.ok
            /\ g.value = NodeSlots(t.data)[i - t.firstIndex + 1]

\* C23: for every tile and every index i, Tile.get(i) returns the
\* ancestor-peak value when i < firstIndex and i is a key of ancestorPeaks,
\* fails with MMRIndexRangeError when i < firstIndex and i is not such a key or
\* when i >= nextIndex, and otherwise returns the node stored at slot
\* i - firstIndex; a failed get leaves the tile unchanged (get assigns
\* nothing: TileGet returns a value and no tile).
C23_TileGetByCases ==
    \A t \in StoredTiles \cup OpenTiles : \A i \in GetIndices : GetByCases(t, i)

\* a stored tile for which all the cases of get happen: an ancestor peak, an
\* index below the tile that is no ancestor peak, a node of the tile, and an
\* index after its nodes
C23_Witness ==
    \E t \in StoredTiles :
        /\ \E i \in GetIndices : i < t.firstIndex /\ i \in DOMAIN t.ancestorPeaks
                                 /\ TileGet(cfg, t, i).ok
        /\ \E i \in GetIndices : i < t.firstIndex /\ i \notin DOMAIN t.ancestorPeaks
                                 /\ ~TileGet(cfg, t, i).ok
        /\ \E i \in GetIndices : t.firstIndex < i /\ i < t.nextIndex /\ TileGet(cfg, t, i).ok
        /\ ~TileGet(cfg, t, t.nextIndex).ok

\* ------------------------------------------------------------------------
\* C24
\* ------------------------------------------------------------------------
\* the known answers of the algorithm tests for index_height(0..38)
kat39_mmr_index_heights ==
    <<0, 0, 1, 0, 0, 1, 2, 0, 0, 1, 0, 0, 1, 2, 3, 0, 0, 1, 0, 0, 1, 2, 0, 0, 1, 0, 0, 1, 2,
      3, 4, 0, 0, 1, 0, 0, 1, 2, 0>>

\* n leaf values, all different
SomeLeaves(n) == [k \in 1..n |-> <<k>>]

\* the node the construction places at index i: the flat array is built of as
\* many leaves as it takes to have more than i nodes
LeavesToHold(i) == CHOOSE n \in 1..(i + 1) : mmr_index(n - 1) <= i /\ i < mmr_index(n)

BuiltNode(i) == FlatMMR(LeafAdder, SomeLeaves(LeavesToHold(i))).nodes[i + 1]

\* the height of a built node (a leaf value, or the hash of a position and two
\* children), the number of leaves under it, and whether its tree is perfect
RECURSIVE NodeHeight(_)
NodeHeight(n) == IF Len(n) = 1 THEN 0 ELSE 1 + NodeHeight(n[2])

RECURSIVE NodeLeaves(_)
NodeLeaves(n) == IF Len(n) = 1 THEN 1 ELSE NodeLeaves(n[2]) + NodeLeaves(n[3])

RECURSIVE IsPerfect(_)
IsPerfect(n) ==
    \/ Len(n) = 1
    \/ /\ Len(n) = 3
       /\ IsPerfect(n[2])
       /\ IsPerfect(n[3])
       /\ NodeHeight(n[2]) = NodeHeight(n[3])

\* index_height applied to arg, next to the node built at that index
HeightOfIndex ==
    /\ res = NoResult
    /\ res' = [height |-> index_height(arg), node |-> BuiltNode(arg)]
    /\ arg' = arg
    /\ LogUnchanged

SpecIndexHeight == InitIndex /\ [][HeightOfIndex]_vars

\* C24: for every node index i >= 0, index_height(i) is the height of the node
\* that the MMR construction (add_leaf_hash) places at index i: 0 for a leaf and
\* k for the root of a perfect binary subtree of 2^k leaves; for i = 0..38 it
\* equals the KAT vector 0,0,1,0,0,1,2,0,0,1,0,0,1,2,3,...
C24_IndexHeightIsNodeHeight ==
    res # NoResult =>
        /\ res.height = NodeHeight(res.node)
        /\ res.height = 0 <=> Len(res.node) = 1
        /\ IsPerfect(res.node)
        /\ NodeLeaves(res.node) = Pow2(res.height)
        /\ arg < Len(kat39_mmr_index_heights) => res.height = kat39_mmr_index_heights[arg + 1]

\* the root of a perfect subtree of sixteen leaves or more, beyond the known
\* answers
C24_Witness ==
    /\ res # NoResult
    /\ arg > 38
    /\ res.height >= 4
    /\ NodeLeaves(res.node) >= 16


\* ------------------------------------------------------------------------
\* C25
\* ------------------------------------------------------------------------
\* the known answers of the algorithm tests for peaks, by complete index
kat39_peak_indices_map ==
    [i \in {0, 2, 3, 6, 7, 9, 10, 14, 15, 17, 18, 21, 22, 24, 25, 30, 31, 33, 34, 37, 38} |->
        CASE i = 0 -> <<0>>
          [] i = 2 -> <<2>>
          [] i = 3 -> <<2, 3>>
          [] i = 6 -> <<6>>
          [] i = 7 -> <<6, 7>>
          [] i = 9 -> <<6, 9>>
          [] i = 10 -> <<6, 9, 10>>
          [] i = 14 -> <<14>>
          [] i = 15 -> <<14, 15>>
          [] i = 17 -> <<14, 17>>
          [] i = 18 -> <<14, 17, 18>>
          [] i = 21 -> <<14, 21>>
          [] i = 22 -> <<14, 21, 22>>
          [] i = 24 -> <<14, 21, 24>>
          [] i = 25 -> <<14, 21, 24, 25>>
          [] i = 30 -> <<30>>
          [] i = 31 -> <<30, 31>>
          [] i = 33 -> <<30, 33>>
          [] i = 34 -> <<30, 33, 34>>
          [] i = 37 -> <<30, 37>>
          [] i = 38 -> <<30, 37, 38>>]

\* the flat array built of as many leaves as it takes to hold node i; i is a
\* complete MMR index when that array ends at i
BuiltMMR(i) == FlatMMR(LeafAdder, SomeLeaves(LeavesToHold(i))).nodes

\* peaks applied to arg, next to the flat array that holds node arg
PeaksOf ==
    /\ res = NoResult
    /\ res' = [peaks |-> peaks(arg), nodes |-> BuiltMMR(arg)]
    /\ arg' = arg
    /\ LogUnchanged

SpecPeaks == InitIndex /\ [][PeaksOf]_vars

\* the indices of the nodes of a flat array that are the child of no node of
\* it: the roots of its maximal perfect subtrees
RootsOf(nodes) ==
    {j \in 0..(Len(nodes) - 1) :
        \A k \in (j + 1)..(Len(nodes) - 1) :
            Len(nodes[k + 1]) = 3 =>
                nodes[k + 1][2] # nodes[j + 1] /\ nodes[k + 1][3] # nodes[j + 1]}

\* the positions of the set bits of x, from the most significant bit
RECURSIVE SetBits(_)
SetBits(x) ==
    IF x = 0 THEN << >> ELSE <<log2_floor(x)>> \o SetBits(x - Pow2(log2_floor(x)))

SeqRange(q) == {q[k] : k \in DOMAIN q}

\* C25: for every node index i >= 0, peaks(i) is strictly increasing in node
\* index and its node heights are sorted in descending order (no height is
\* above the one before it); when i is a complete MMR index the list is exactly
\* the roots of the maximal perfect subtrees covering nodes 0..i, its last
\* element is i, and the peak heights are exactly the set bits of leaf_count(i)
\* read from the most significant bit (peaks(10) = [6, 9, 10],
\* peaks(25) = [14, 21, 24, 25], peaks(38) = [30, 37, 38]).
C25_PeaksAreTheRoots ==
    res # NoResult =>
        LET ps == res.peaks
            hs == [k \in DOMAIN ps |-> index_height(ps[k])]
        IN /\ \A k \in 1..(Len(ps) - 1) : ps[k] < ps[k + 1] /\ hs[k] >= hs[k + 1]
           /\ Len(res.nodes) = arg + 1 =>
                /\ SeqRange(ps) = RootsOf(res.nodes)
                /\ \A k \in DOMAIN ps :
                      /\ IsPerfect(res.nodes[ps[k] + 1])
                      /\ NodeHeight(res.nodes[ps[k] + 1]) = hs[k]
                /\ SumSeq([k \in DOMAIN ps |-> Pow2(hs[k] + 1) - 1]) = arg + 1
                /\ ps[Len(ps)] = arg
                /\ hs = SetBits(leaf_count(arg))
           /\ arg \in DOMAIN kat39_peak_indices_map => ps = kat39_peak_indices_map[arg]

\* a complete index beyond the known answers with four peaks or more
C25_Witness ==
    /\ res # NoResult
    /\ arg > 38
    /\ Len(res.nodes) = arg + 1
    /\ Len(res.peaks) >= 4

\* ------------------------------------------------------------------------
\* C26
\* ------------------------------------------------------------------------
\* the known answers of the algorithm tests for mmr_index(0..20)
kat39_mmr_index_of_leaf ==
    <<0, 1, 3, 4, 7, 8, 10, 11, 15, 16, 18, 19, 22, 23, 25, 26, 31, 32, 34, 35, 38>>

\* mmr_index applied to the leaf index arg and to the one after it, next to
\* the flat array built of the leaves 0..arg
IndexOfLeaf ==
    /\ res = NoResult
    /\ res' = [index |-> mmr_index(arg),
               after |-> mmr_index(arg + 1),
               nodes |-> FlatMMR(LeafAdder, SomeLeaves(arg + 1)).nodes]
    /\ arg' = arg
    /\ LogUnchanged

SpecMmrIndex == InitIndex /\ [][IndexOfLeaf]_vars

\* the number of set bits of x, by its binary digits
RECURSIVE PopCount(_)
PopCount(x) == IF x = 0 THEN 0 ELSE (x % 2) + PopCount(x \div 2)

\* C26: for every leaf index e >= 0, mmr_index(e) is the node index at which
\* the e-th appended leaf is stored: mmr_index(0) = 0, mmr_index is strictly
\* increasing, index_height(mmr_index(e)) = 0 and
\* mmr_index(e) = 2e - popcount(e) (mmr_index(20) = 38).
C26_MmrIndexIsLeafPosition ==
    res # NoResult =>
        /\ res.index < Len(res.nodes)
        /\ res.nodes[res.index + 1] = SomeLeaves(arg + 1)[arg + 1]
        /\ \A j \in 0..(Len(res.nodes) - 1) :
              res.nodes[j + 1] = SomeLeaves(arg + 1)[arg + 1] => j = res.index
        /\ arg = 0 => res.index = 0
        /\ res.index < res.after
        /\ index_height(res.index) = 0
        /\ res.index = 2 * arg - PopCount(arg)
        /\ arg < Len(kat39_mmr_index_of_leaf) => res.index = kat39_mmr_index_of_leaf[arg + 1]
        /\ arg = 20 => res.index = 38

\* a leaf beyond the known answers that closes three subtrees or more: the
\* leaf is followed by interior nodes in the array
C26_Witness ==
    /\ res # NoResult
    /\ arg > 20
    /\ res.after - res.index >= 4
    /\ Len(res.nodes) = res.after

\* ------------------------------------------------------------------------
\* C27
\* ------------------------------------------------------------------------
\* the known answers of the algorithm tests for complete_mmr(0..38)
kat39_complete_mmr_indices ==
    <<0, 2, 2, 3, 6, 6, 6, 7, 9, 9, 10, 14, 14, 14, 14, 15, 17, 17, 18, 21, 21, 21, 22, 24, 24,
      25, 30, 30, 30, 30, 30, 31, 33, 33, 34, 37, 37, 37, 38>>

\* complete_mmr applied to arg and again to its result
CompleteOf ==
    /\ res = NoResult
    /\ res' = [complete |-> complete_mmr(arg),
               again |-> complete_mmr(complete_mmr(arg))]
    /\ arg' = arg
    /\ LogUnchanged

SpecCompleteMmr == InitIndex /\ [][CompleteOf]_vars

\* c is a complete MMR index: the node after it is not above it
IsCompleteIndex(c) == index_height(c + 1) <= index_height(c)

\* C27: for every node index i >= 0, complete_mmr(i) is the smallest c >= i
\* with index_height(c+1) <= index_height(c); it returns i itself when i is
\* already complete and is idempotent (complete_mmr(1) = 2,
\* complete_mmr(11) = 14).
C27_CompleteMmrIsFirstComplete ==
    res # NoResult =>
        /\ res.complete >= arg
        /\ IsCompleteIndex(res.complete)
        /\ \A c \in arg..(res.complete - 1) : ~IsCompleteIndex(c)
        /\ IsCompleteIndex(arg) => res.complete = arg
        /\ Len(BuiltMMR(arg)) = arg + 1 => res.complete = arg
        /\ res.again = res.complete
        /\ Len(BuiltMMR(arg)) = res.complete + 1
        /\ arg < Len(kat39_complete_mmr_indices) =>
              res.complete = kat39_complete_mmr_indices[arg + 1]
        /\ arg = 1 => res.complete = 2
        /\ arg = 11 => res.complete = 14

\* an index beyond the known answers that is three nodes or more below the
\* first complete one
C27_Witness ==
    /\ res # NoResult
    /\ arg > 38
    /\ res.complete >= arg + 3

\* ------------------------------------------------------------------------
\* C28
\* ------------------------------------------------------------------------
\* the width of the integers the JavaScript shift and bit operators work on
Int32Bits == 32

\* indices next to every power of two up to the greatest signed 32-bit
\* integer less one (the algorithms add 1 to their argument)
WideIndices ==
    {Pow2(b) + d : b \in 1..(Int32Bits - 2), d \in (0 - 2)..1}
        \cup {(Pow2(Int32Bits - 2) - 2) + Pow2(Int32Bits - 2) + d : d \in (0 - 1)..0}

InitWide ==
    /\ InitLog({1})
    /\ arg \in WideIndices
    /\ res = NoResult

HeightWide ==
    /\ res = NoResult
    /\ res' = [fn |-> "index_height", value |-> index_height(arg)]
    /\ arg' = arg
    /\ LogUnchanged

CountWide ==
    /\ res = NoResult
    /\ res' = [fn |-> "leaf_count", value |-> leaf_count(arg)]
    /\ arg' = arg
    /\ LogUnchanged

\* peaks forms s + 1 = i + 2: applied up to 2^31 - 3
PeaksWide ==
    /\ res = NoResult
    /\ arg + 1 < (Pow2(Int32Bits - 2) - 1) + Pow2(Int32Bits - 2)
    /\ res' = [fn |-> "peaks", value |-> peaks(arg)]
    /\ arg' = arg
    /\ LogUnchanged

\* mmr_index(e) for e >= 2^30 forms (1 << 31) - 1 = -2^31 - 1, a number below
\* the integers of the model: applied below 2^30
IndexWide ==
    /\ res = NoResult
    /\ arg < Pow2(Int32Bits - 2)
    /\ res' = [fn |-> "mmr_index", value |-> mmr_index(arg)]
    /\ arg' = arg
    /\ LogUnchanged

ZerosWide ==
    /\ res = NoResult
    /\ res' = [fn |-> "trailing_zeros64", value |-> trailing_zeros64(arg)]
    /\ arg' = arg
    /\ LogUnchanged

WideCalls == HeightWide \/ CountWide \/ PeaksWide \/ IndexWide \/ ZerosWide

SpecWide == InitWide /\ [][WideCalls]_vars

\* the same algorithms in exact integer arithmetic
RECURSIVE ExactAllOnes(_)
ExactAllOnes(x) == x % 2 = 1 /\ (x = 1 \/ ExactAllOnes(x \div 2))

RECURSIVE ExactHeightOfPos(_)
ExactHeightOfPos(pos) ==
    IF ExactAllOnes(pos) THEN log2_floor(pos)
    ELSE ExactHeightOfPos(pos - (Pow2(log2_floor(pos)) - 1))

\* 2^k - 1
ExactOnes(k) == IF k = 0 THEN 0 ELSE (Pow2(k - 1) - 1) + Pow2(k - 1)

RECURSIVE ExactCountLoop(_, _)
ExactCountLoop(s, k) ==
    IF k = 0 THEN 0
    ELSE IF s >= ExactOnes(k) THEN Pow2(k - 1) + ExactCountLoop(s - ExactOnes(k), k - 1)
    ELSE ExactCountLoop(s, k - 1)

RECURSIVE ExactPeaksLoop(_, _, _)
ExactPeaksLoop(s, peak, acc) ==
    IF s = 0 THEN acc
    ELSE LET highest_size == Pow2(log2_floor(s + 1)) - 1
         IN ExactPeaksLoop(s - highest_size, peak + highest_size,
                           Append(acc, peak + highest_size - 1))

ExactResult(fn, i) ==
    CASE fn = "index_height" -> ExactHeightOfPos(i + 1)
      [] fn = "leaf_count" -> ExactCountLoop(i + 1, bit_length(i + 1))
      [] fn = "peaks" -> ExactPeaksLoop(i + 1, 0, << >>)
      [] fn = "mmr_index" -> 2 * i - PopCount(i)
      [] fn = "trailing_zeros64" ->
            IF i = 0 THEN 64 ELSE CHOOSE k \in 0..(Int32Bits - 2) : i % Pow2(k + 1) = Pow2(k)

\* C28: index arithmetic is never silently truncated: for every index in the
\* supported range index_height, peaks, leaf_count, mmr_index and
\* trailing_zeros64 either return the same result as exact integer arithmetic
\* or raise an error; no shift or bit operation in them wraps at 32 bits.
\* (None of the calls made here raises: every result is a returned value.)
C28_NoSilentTruncation ==
    res # NoResult => res.value = ExactResult(res.fn, arg)

\* the results are exact while 1 << bit_length(i + 1) stays below 2^31
ExactBelowTheWrap ==
    (res # NoResult /\ arg + 1 < Pow2(Int32Bits - 2)) => res.value = ExactResult(res.fn, arg)

\* the wrapped results: leaf_count gives 0 from i + 1 = 2^30 on, and
\* index_height gives 0 for the root of the perfect tree of 2^31 - 1 nodes
WrappedResults ==
    (res # NoResult /\ arg + 1 >= Pow2(Int32Bits - 2)) =>
        /\ res.fn = "leaf_count" => res.value = 0 /\ ExactResult(res.fn, arg) >= Pow2(Int32Bits - 3)
        /\ (res.fn = "index_height" /\ ExactAllOnes(arg + 1)) =>
              res.value = 0 /\ ExactResult(res.fn, arg) = Int32Bits - 2

\* ------------------------------------------------------------------------
\* C29
\* ------------------------------------------------------------------------
\* JavaScript numbers beyond 32 bits: <<q, r>> is q * 2^16 + r, 0 <= r < 2^16
Norm(q, r) == <<q + (r \div 65536), r % 65536>>
Wide(n) == Norm(0, n)
WidePlus(a, b) == Norm(a[1] + b[1], a[2] + b[2])
WideMinus(a, b) == Norm(a[1] - b[1], a[2] - b[2])
\* Math.floor(Math.log2(a)) for a >= 1
WideLog2Floor(a) == IF a[1] > 0 THEN 16 + log2_floor(a[1]) ELSE log2_floor(a[2])

InitTotal ==
    /\ InitLog({1})
    /\ arg \in (0..MaxPairIndex) \cup WideIndices
    /\ res = NoResult

\* the calls whose loops are run as a whole: index_height, leaf_count,
\* mmr_index, complete_mmr of i, and inclusion_proof_path and
\* consistency_proof_paths of i and any c (below i, not complete, or neither)
CallsOnPair ==
    /\ res = NoResult
    /\ arg <= MaxPairIndex
    /\ \E c \in 0..MaxPairIndex :
          res' = [fn |-> "calls", done |-> TRUE, c |-> c,
                  height |-> index_height(arg),
                  count |-> leaf_count(arg),
                  index |-> mmr_index(arg),
                  complete |-> complete_mmr(arg),
                  path |-> inclusion_proof_path(arg, c),
                  paths |-> consistency_proof_paths(arg, c)]
    /\ arg' = arg
    /\ LogUnchanged

\* peaks(arg) up to its loop
PeaksStart ==
    /\ res = NoResult
    /\ res' = [fn |-> "peaks", done |-> FALSE, failed |-> FALSE, s |-> Wide(arg + 1),
               peak |-> Wide(0), peaks |-> << >>]
    /\ arg' = arg
    /\ LogUnchanged

\* one test of the loop condition of peaks, and one pass of its body. The
\* array takes MaxPushes entries: a push beyond them fails for lack of memory
\* and ends the call without a result
PeaksStep ==
    /\ res # NoResult
    /\ res.fn = "peaks"
    /\ ~res.done
    /\ ~res.failed
    /\ IF res.s = Wide(0)
       THEN res' = [res EXCEPT !.done = TRUE]
       ELSE LET highest_size ==
                    WideMinus(Wide(ShiftLeft(1, WideLog2Floor(WidePlus(res.s, Wide(1))))),
                              Wide(1))
                peak == WidePlus(res.peak, highest_size)
            IN IF Len(res.peaks) < MaxPushes
               THEN res' = [res EXCEPT !.peak = peak,
                                       !.peaks = Append(@, WideMinus(peak, Wide(1))),
                                       !.s = WideMinus(@, highest_size)]
               ELSE res' = [res EXCEPT !.peak = peak, !.failed = TRUE]
    /\ arg' = arg
    /\ LogUnchanged

TotalCalls == CallsOnPair \/ PeaksStart \/ PeaksStep

SpecTotal == InitTotal /\ [][TotalCalls]_vars /\ WF_vars(PeaksStart \/ PeaksStep)

CallReturned == res # NoResult /\ res.done

\* C29: index_height, peaks, leaf_count, mmr_index, complete_mmr,
\* inclusion_proof_path and consistency_proof_paths terminate with a result
\* for every non-negative integer input, for inclusion_proof_path(i, c) also
\* when c < i or c is not a complete MMR index.
C29_EveryCallReturns == <>CallReturned

\* every call on an index below 2^31 - 2 returns, and peaks returns what the
\* whole loop computes
ReturnsBelowTheWrap == <>(CallReturned \/ arg + 1 >= ExactOnes(Int32Bits - 1))

StepsAgreeWithPeaks ==
    (CallReturned /\ res.fn = "peaks") => res.peaks = [k \in DOMAIN peaks(arg) |-> Wide(peaks(arg)[k])]

\* peaks(2^31 - 2) in its loop with s = 2^32 and highest_size = 0
PeaksLoopsForever ==
    (res # NoResult /\ res.fn = "peaks" /\ arg + 1 = ExactOnes(Int32Bits - 1)
        /\ Len(res.peaks) >= 1)
    => res.s = <<65536, 0>> /\ ~res.done

\* a call of peaks fails for lack of memory only in that loop
PeaksFailOnlyInTheWrap ==
    (res # NoResult /\ res.fn = "peaks" /\ res.failed) =>
        arg + 1 = ExactOnes(Int32Bits - 1) /\ res.s = <<65536, 0>>

\* ------------------------------------------------------------------------
\* C30
\* ------------------------------------------------------------------------
\* the peak slots of a buffer, and the values the ancestor peak map of t
\* returns when the buffer of t holds data (the map holds views of the slots)
PeakArea(data) == [k \in 1..cfg.maxPeaks |-> read_field(cfg, data, k - 1, cfg.peaksStart)]

MapValues(t, data) ==
    [p \in DOMAIN t.ancestorPeaks |-> read_field(cfg, data, t.ancestorPeaks[p], cfg.peaksStart)]

AppendLeafKeepsPeaks(t) ==
    LET kept(r) == /\ PeakArea(r.db.data) = PeakArea(t.data)
                   /\ r.db.ancestorPeaks = t.ancestorPeaks
                   /\ MapValues(r.db, r.db.data) = MapValues(t, t.data)
    IN kept(append_leaf(cfg, t, <<0>>))

NextPeakStackKeepsPeaks(t) ==
    LET kept(data) == /\ data = t.data
                      /\ PeakArea(data) = PeakArea(t.data)
                      /\ MapValues(t, data) = MapValues(t, t.data)
    IN kept(next_peak_stack(cfg, t).data)

\* the successor's buffer holds the returned stack in its own peak slots
SuccessorHoldsCopy(t) ==
    LET stack == next_peak_stack(cfg, t).peaks
        held(next) == \A k \in 1..Len(stack) :
                         read_field(cfg, next.data, k - 1, cfg.peaksStart) = stack[k]
    IN held(TileCreate(cfg, t))

\* C30: once a tile is constructed its ancestorPeaks map and its stored
\* peak-slot bytes never change: neither append_leaf on the tile nor
\* next_peak_stack / Tile.create(cfg, tile) for its successor modifies the
\* tile's data buffer or the values the map returns; the successor receives a
\* copy and shares no memory with the parent.
C30_TilePeaksNeverChange ==
    \A t \in StoredTiles \cup OpenTiles :
        /\ AppendLeafKeepsPeaks(t)
        /\ IsFullTile(t) => NextPeakStackKeepsPeaks(t) /\ SuccessorHoldsCopy(t)

\* what holds: append_leaf leaves the peak slots and the map alone, and the
\* successor's buffer is allocated anew and holds the stack
AppendLeafAndCopyKeepPeaks ==
    \A t \in StoredTiles \cup OpenTiles :
        /\ AppendLeafKeepsPeaks(t)
        /\ IsFullTile(t) => SuccessorHoldsCopy(t)

\* next_peak_stack writes the last node of a full tile into the tile's own
\* peak slot peakCount - popCount; where the tile popped a peak, a value its
\* map returns changes to that node
NextPeakStackWritesParent ==
    \A t \in StoredTiles \cup OpenTiles :
        IsFullTile(t) =>
            LET slot == ones(t.id) - trailing_zeros64(t.id + 1)
                after == next_peak_stack(cfg, t).data
            IN /\ read_field(cfg, after, slot, cfg.peaksStart) = read_index(cfg, t, last_index(t))
               /\ after # t.data
               /\ trailing_zeros64(t.id + 1) > 0 => MapValues(t, after) # MapValues(t, t.data)

\* ------------------------------------------------------------------------
\* C31
\* ------------------------------------------------------------------------
\* add_leaf_hash of one more leaf on the adder that holds the MMR of arg leaves
AddOneLeaf ==
    /\ res = NoResult
    /\ res' = [before |-> FlatMMR(LeafAdder, SomeLeaves(arg)).nodes,
               added |-> add_leaf_hash(cfg, FlatMMR(LeafAdder, SomeLeaves(arg)), <<arg + 1>>)]
    /\ arg' = arg
    /\ LogUnchanged

SpecAddLeaf == InitIndex /\ [][AddOneLeaf]_vars

\* C31: add_leaf_hash(db, H, f) on an adder that holds a complete MMR of n
\* nodes appends f at index n and then one interior node per completed right
\* child: each interior node stored at index p, whose children have height g,
\* has value H(be64(p+1) || node[p - 2^(g+1)] || node[p - 1]); it returns the
\* next free index, and that index has height 0 so the adder again holds a
\* complete MMR.
C31_AddLeafHashAppendsParents ==
    res # NoResult =>
        LET n == Len(res.before)
            after == res.added.db.nodes
        IN /\ n = mmr_index(arg)
           /\ res.added.ok
           /\ SubSeq(after, 1, n) = res.before
           /\ after[n + 1] = <<arg + 1>>
           /\ Len(after) = n + 1 + PopCount(arg) - PopCount(arg + 1) + 1
           /\ \A p \in (n + 1)..(Len(after) - 1) :
                 LET g == p - n - 1
                 IN /\ after[p + 1] = hash_pos_pair64(p + 1, after[p - Pow2(g + 1) + 1], after[p])
                    /\ NodeHeight(after[p - Pow2(g + 1) + 1]) = g
                    /\ NodeHeight(after[p]) = g
                    /\ IsPerfect(after[p + 1])
           /\ res.added.i = Len(after)
           /\ index_height(res.added.i) = 0
           /\ Len(after) = mmr_index(arg + 1)
           /\ IsCompleteIndex(Len(after) - 1)

\* a leaf that completes three right children or more
C31_Witness ==
    /\ res # NoResult
    /\ res.added.ok
    /\ Len(res.added.db.nodes) >= Len(res.before) + 4
    /\ Len(res.before) > 0

\* ------------------------------------------------------------------------
\* C32
\* ------------------------------------------------------------------------
InitPair ==
    /\ InitLog({1})
    /\ arg \in 0..MaxPairIndex
    /\ res = NoResult

\* the inclusion path of node arg in MMR(c1), next to its path in MMR(c0) and
\* the path from accumulator_root(arg, c0) in MMR(c1), for complete c0 <= c1
ComposePaths ==
    /\ res = NoResult
    /\ \E c0, c1 \in 0..MaxProofIndex :
          /\ arg <= c0
          /\ c0 <= c1
          /\ complete_mmr(c0) = c0
          /\ complete_mmr(c1) = c1
          /\ res' = [c0 |-> c0, c1 |-> c1,
                     whole |-> inclusion_proof_path(arg, c1),
                     first |-> inclusion_proof_path(arg, c0),
                     root |-> accumulator_root(arg, c0),
                     second |-> inclusion_proof_path(accumulator_root(arg, c0), c1)]
    /\ arg' = arg
    /\ LogUnchanged

SpecCompose == InitPair /\ [][ComposePaths]_vars

\* node n is node m or lies in the tree under it
RECURSIVE Under(_, _)
Under(n, m) == n = m \/ (Len(m) = 3 /\ (Under(n, m[2]) \/ Under(n, m[3])))

\* r is the peak of MMR(c) that covers i: a root of the array built up to c
\* with node i in its tree
CoveringPeak(r, i, c) ==
    LET covers(nodes) == /\ Len(nodes) = c + 1
                         /\ r \in RootsOf(nodes)
                         /\ Under(nodes[i + 1], nodes[r + 1])
    IN covers(BuiltMMR(c))

\* C32: inclusion paths compose: for every node i and complete MMR indices
\* c0 <= c1 with i <= c0, inclusion_proof_path(i, c1) equals
\* inclusion_proof_path(i, c0) followed by inclusion_proof_path(r, c1), where r
\* is the peak of MMR(c0) that covers i.
C32_InclusionPathsCompose ==
    res # NoResult =>
        /\ CoveringPeak(res.root, arg, res.c0)
        /\ res.whole = res.first \o res.second

\* a node below its peak in MMR(c0), whose peak is merged in MMR(c1): both
\* parts of the path are non-empty
C32_Witness ==
    /\ res # NoResult
    /\ res.c0 < res.c1
    /\ Len(res.first) >= 2
    /\ Len(res.second) >= 2
    /\ res.root # arg

\* ------------------------------------------------------------------------
\* C33
\* ------------------------------------------------------------------------
\* the inclusion path of node arg in MMR(c), for any c >= arg
PathOf ==
    /\ res = NoResult
    /\ \E c \in arg..MaxProofIndex :
          res' = [c |-> c, path |-> inclusion_proof_path(arg, c)]
    /\ arg' = arg
    /\ LogUnchanged

SpecPath == InitPair /\ [][PathOf]_vars

\* C33: for every node i and every c >= i, every index returned by
\* inclusion_proof_path(i, c) is <= c, differs from i, and the heights of the
\* returned nodes are index_height(i), index_height(i)+1, ... in order; so a
\* proof against MMR(c) reads no node appended after c.
C33_PathStaysInMMR ==
    res # NoResult =>
        \A k \in DOMAIN res.path :
            /\ 0 <= res.path[k]
            /\ res.path[k] <= res.c
            /\ res.path[k] # arg
            /\ index_height(res.path[k]) = index_height(arg) + k - 1
            /\ NodeHeight(BuiltNode(res.path[k])) = index_height(arg) + k - 1

\* a path of three nodes or more in an MMR that is not complete, whose next
\* sibling is a node appended after c
C33_Witness ==
    /\ res # NoResult
    /\ Len(res.path) >= 3
    /\ complete_mmr(res.c) # res.c
    /\ Len(inclusion_proof_path(arg, complete_mmr(res.c))) > Len(res.path)

\* ------------------------------------------------------------------------
\* C34
\* ------------------------------------------------------------------------
\* the node values of a tile, in index order
NodeValues(t) == [k \in 1..node_count(t) |-> read_index(cfg, t, t.firstIndex + k - 1)]

\* the image TileStore.commit writes for tile t into a store without that tile
ImageOf(t) == StoreCommit(cfg, EmptyTable, t, Undefined).table[t.id].data

\* the round trip of tile t: the image commit writes, and Tile.load of it
RoundTrip(t) ==
    LET same(l) == /\ l.ok
                   /\ l.tile.id = t.id
                   /\ l.tile.firstIndex = t.firstIndex
                   /\ l.tile.nextIndex = t.nextIndex
                   /\ NodeValues(l.tile) = NodeValues(t)
                   /\ DOMAIN l.tile.ancestorPeaks = DOMAIN t.ancestorPeaks
                   /\ MapValues(l.tile, l.tile.data) = MapValues(t, t.data)
                   /\ append_leaf(cfg, l.tile, <<0>>) = append_leaf(cfg, t, <<0>>)
        written(c) == /\ c.called
                      /\ c.err = "none"
                      /\ DOMAIN c.table = {t.id}
    IN /\ written(StoreCommit(cfg, EmptyTable, t, Undefined))
       /\ Len(ImageOf(t)) * cfg.fieldWidth
             = cfg.nodesStart + (t.nextIndex - t.firstIndex) * cfg.fieldWidth
       /\ read_start_field(cfg, ImageOf(t)) = <<cfg.tileHeight, t.id>>
       /\ same(TileLoad(cfg, ImageOf(t)))

\* C34: persisting and re-reading a tile is a round trip: for every non-empty
\* tile T, the image written by TileStore.commit(T) has length
\* nodesStart + (nextIndex - firstIndex) * fieldWidth and carries the header
\* (cfg.tile_height, T.id), also for tile 0, and Tile.load of that image under
\* the same cfg yields a tile with the same id, firstIndex, nextIndex, node
\* values and ancestorPeaks, to which append_leaf can continue.
C34_CommitLoadRoundTrip ==
    /\ \A id \in DOMAIN table :
          /\ read_start_field(cfg, table[id].data) = <<cfg.tileHeight, id>>
          /\ TileLoad(cfg, table[id].data).ok
          /\ node_count(TileLoad(cfg, table[id].data).tile) > 0
          /\ ImageOf(TileLoad(cfg, table[id].data).tile) = table[id].data
    /\ \A t \in StoredTiles \cup OpenTiles : node_count(t) > 0 => RoundTrip(t)

\* tile 0 is stored, and a tile with ancestor peaks is open with nodes of its
\* own and room for more
C34_Witness ==
    /\ 0 \in DOMAIN table
    /\ \E t \in OpenTiles :
          /\ t.id >= 2
          /\ node_count(t) > 0
          /\ DOMAIN t.ancestorPeaks # {}
          /\ append_leaf(cfg, t, <<0>>).err = "none"

\* ------------------------------------------------------------------------
\* C35
\* ------------------------------------------------------------------------
\* the known answers of the tile tests: the node counts of tiles 0..7 at
\* tile height 1
nodeCounts == <<3, 4, 3, 5, 3, 4, 3, 6>>

\* tile t after append_leaf is called with new leaves until it throws TileFullError
RECURSIVE FillTile(_, _)
FillTile(t, k) ==
    LET filled(r) == IF r.err = "none" THEN FillTile(r.db, k + 1) ELSE t
    IN filled(append_leaf(cfg, t, <<k>>))

\* the empty tile with the given id: Tile.create on the filled tile before it
RECURSIVE EmptyTileOf(_)
EmptyTileOf(id) ==
    IF id = 0 THEN TileCreate(cfg, NoTile)
    ELSE TileCreate(cfg, FillTile(EmptyTileOf(id - 1), id * Pow2(MaxTileHeight)))

InitTile ==
    /\ InitLog({1})
    /\ arg \in 0..MaxTileId
    /\ res = NoResult

\* Tile.create of tile arg
OpenTile ==
    /\ res = NoResult
    /\ res' = [tile |-> EmptyTileOf(arg), full |-> FALSE, added |-> 0]
    /\ arg' = arg
    /\ LogUnchanged

\* one append_leaf on the tile: the leaf is added or the tile is full
FillStep ==
    /\ res # NoResult
    /\ ~res.full
    /\ LET filled(r) ==
            IF r.err = "TileFullError"
            THEN res' = [res EXCEPT !.full = TRUE]
            ELSE res' = [res EXCEPT !.tile = r.db, !.added = @ + 1]
       IN filled(append_leaf(cfg, res.tile, <<100 + res.added>>))
    /\ arg' = arg
    /\ LogUnchanged

FillsTile == OpenTile \/ FillStep

SpecFill == InitTile /\ [][FillsTile]_vars

\* the number of node slots of a buffer
NodeRoom(data) == (Len(data) * cfg.fieldWidth - cfg.nodesStart) \div cfg.fieldWidth

\* C35: for every tile id and tile_height, a tile filled by append_leaf until
\* TileFull holds exactly (max_tile_size(cfg, id) - nodesStart) / fieldWidth =
\* mmr_index((id+1) * 2^H) - mmr_index(id * 2^H) nodes (3, 4, 3, 5, 3, 4, 3, 6
\* for ids 0..7 at tile_height 1), so no append writes outside the buffer
\* allocated by Tile.create or Tile.load.
C35_FullTileFillsItsBuffer ==
    res # NoResult =>
        LET t == res.tile
            H == cfg.tileHeight
        IN /\ t.id = arg
           /\ Len(t.data) * cfg.fieldWidth = max_tile_size(cfg, arg)
           /\ node_count(t) <= NodeRoom(t.data)
           /\ node_count(t) > 0 =>
                 /\ TileLoad(cfg, ImageOf(t)).ok
                 /\ Len(TileLoad(cfg, ImageOf(t)).tile.data) = Len(t.data)
                 /\ NodeValues(TileLoad(cfg, ImageOf(t)).tile) = NodeValues(t)
           /\ res.full =>
                 /\ res.added = Pow2(H)
                 /\ node_count(t) = (max_tile_size(cfg, arg) - cfg.nodesStart) \div cfg.fieldWidth
                 /\ node_count(t) = mmr_index((arg + 1) * Pow2(H)) - mmr_index(arg * Pow2(H))
                 /\ node_count(t) = NodeRoom(t.data)
                 /\ \A k \in 1..node_count(t) : NodeValues(t)[k] # ZeroField
                 /\ (H = 1 /\ arg < Len(nodeCounts)) => node_count(t) = nodeCounts[arg + 1]

\* tile 7 at tile height 1 found full with its six nodes
C35_Witness ==
    /\ res # NoResult
    /\ res.full
    /\ cfg.tileHeight = 1
    /\ arg = 7
    /\ node_count(res.tile) = 6
\* ------------------------------------------------------------------------
\* C36
\* ------------------------------------------------------------------------
\* the stored tile with this id, as load reads it
StoredTile(id) == TileLoad(cfg, table[id].data).tile

\* C36: in every reachable store state, under any interleaving of the writers,
\* the stored tile ids are exactly 0..n with no gap, every stored tile except
\* the one with the highest id is full, and each stored tile with id >= 1
\* carries in its peak slots the values of the peaks of MMR(firstIndex - 1) as
\* the earlier tiles store them.
C36_StoredChainIsWellFormed ==
    DOMAIN table # {} =>
        LET n == MaxId(table)
            nodes == StoredNodes(table)
        IN /\ DOMAIN table = 0..n
           /\ \A id \in 0..n :
                 /\ TileLoad(cfg, table[id].data).ok
                 /\ StoredTile(id).id = id
                 /\ id < n => IsFullTile(StoredTile(id))
           /\ \A id \in 1..n :
                 LET pk == peaks(StoredTile(id).firstIndex - 1)
                 IN \A k \in 1..Len(pk) :
                       /\ pk[k] + 1 <= Len(nodes)
                       /\ PeakSlots(StoredTile(id))[k] = nodes[pk[k] + 1]

\* both writers have stored leaves, a writer was refused, and the chain has
\* three tiles, the last with an ancestor peak of each of the two before it
C36_Witness ==
    /\ DOMAIN table = 0..2
    /\ Len(peaks(StoredTile(2).firstIndex - 1)) = 1
    /\ Len(peaks(StoredTile(1).firstIndex - 1)) = 1
    /\ \E a \in Writers : \E b \in Writers :
          /\ a # b
          /\ \E k \in 1..Len(StoredNodes(table)) :
                Len(StoredNodes(table)[k]) = 1 /\ WriterOf(StoredNodes(table)[k]) = a
          /\ \E k \in 1..Len(StoredNodes(table)) :
                Len(StoredNodes(table)[k]) = 1 /\ WriterOf(StoredNodes(table)[k]) = b
          /\ Raised(b)
\* ------------------------------------------------------------------------
\* C37
\* ------------------------------------------------------------------------
\* the number of leaves among the stored nodes
StoredLeaves == Cardinality({k \in 1..NodeCount : Len(NodeAt(k - 1)) = 1})

\* C37: every store state a reader can observe holds whole leaves only: the
\* number of stored nodes is mmr_index(number of stored leaves), the last
\* stored node index is a complete MMR index, and every stored index above
\* height 0 holds the parent of the two stored nodes below it.
C37_StoredStateHoldsWholeLeaves ==
    /\ NodeCount = mmr_index(StoredLeaves)
    /\ NodeCount > 0 =>
          /\ complete_mmr(NodeCount - 1) = NodeCount - 1
          /\ leaf_count(NodeCount - 1) = StoredLeaves
    /\ \A i \in 0..(NodeCount - 1) :
          IF index_height(i) = 0
          THEN Len(NodeAt(i)) = 1
          ELSE NodeAt(i) = hash_pos_pair64(i + 1,
                               NodeAt(i - ShiftLeft(2, index_height(i) - 1)),
                               NodeAt(i - 1))

\* a state a reader can observe in the middle of a call: a writer has closed a
\* tile with parents above its last leaf and holds leaves not yet stored
C37_Witness ==
    \E w \in Writers :
        /\ pc[w] = "loop"
        /\ Committed(w) # << >>
        /\ leaves[w] # << >>
        /\ NodeCount >= 7
        /\ index_height(NodeCount - 1) >= 2
\* ------------------------------------------------------------------------
\* C38
\* ------------------------------------------------------------------------
\* the leaves of a stored log in leaf index order
LeafSeq(t) ==
    LET nodes == StoredNodes(t)
        isLeaf(node) == Len(node) = 1
    IN SelectSeq(nodes, isLeaf)

\* C38: under any interleaving of the writers, every append call that returned
\* has all its leaves in the stored log, at consecutive leaf indices from the
\* leaf count it read on and in batch order, and no step of any writer,
\* whether its call returns or raises, removes or moves a stored leaf.
C38_NoLostUpdate ==
    /\ [](\A w \in Writers :
            Returned(w) =>
                /\ calllog[w].base + Len(batch[w]) <= Len(LeafSeq(table))
                /\ SubSeq(LeafSeq(table), calllog[w].base + 1,
                          calllog[w].base + Len(batch[w])) = batch[w])
    /\ [][IsPrefix(LeafSeq(table), LeafSeq(table'))]_vars

\* both writers have returned from calls with leaves, one after the other, the
\* later one across two tiles
C38_Witness ==
    \E a \in Writers : \E b \in Writers :
        /\ a # b
        /\ Returned(a) /\ Returned(b)
        /\ batch[a] # << >> /\ Len(batch[b]) >= 2
        /\ calllog[b].base >= calllog[a].base + Len(batch[a])
        /\ Len(Committed(b)) >= 2
\* ------------------------------------------------------------------------
\* C39
\* ------------------------------------------------------------------------
\* the commits writer w issues in the step
NewCommits(w) ==
    SubSeq(calllog'[w].commits, Len(calllog[w].commits) + 1, Len(calllog'[w].commits))

\* the step is a step of the append call of w
StepOf(w) == pc[w] = "loop" /\ (pc'[w] = "idle" \/ calllog'[w] # calllog[w])

\* the call of w added a node to the tile of commit c: it created the tile, or
\* the tile holds more nodes than the head it read
AddedTo(w, c) ==
    \/ c.version = Undefined
    \/ mmr_index(c.id * cfg.leafCount) + c.nodes > mmr_index(calllog[w].base)

\* the call of w has no leaves and read a stored head tile
EmptyBatchOnLog(w) ==
    pc[w] = "loop" /\ batch[w] = << >> /\ calllog[w].head[2] # Undefined

\* the call of w has leaves and the stored head tile it read was full
ClosesFullHead(w) ==
    /\ pc[w] = "loop" /\ leaves[w] = batch[w] /\ batch[w] # << >>
    /\ calllog[w].head[2] # Undefined
    /\ IsFullTile(adder[w])

GetOutcome(r) == [err |-> r.err, value |-> IF r.err = "none" THEN r.value ELSE ZeroField]

\* the tiles the cache of a TileLog may hold: none, a tile of the store as it
\* is, or the tile an earlier get left (a copy read before it was extended)
CachedTiles == {NoTile, got} \cup StoredTiles

\* C40: the last-touched tile cache of TileLog.get is transparent: for every
\* stored log, every node index i and every cached tile (none, the tile that
\* holds i, an earlier or a later tile, a copy read before the tile was
\* extended), get(i) gives the outcome, value or error, of get(i) with an
\* empty cache.
C40_CacheIsTransparent ==
    \A i \in 0..(MaxIndex + 1) :
        \A cached \in CachedTiles :
            GetOutcome(LogGet(cfg, table, cached, i)) =
                GetOutcome(LogGet(cfg, table, NoTile, i))
====
